---- MODULE Spec2Model ----
(***************************************************************************)
(* Model of the Digimonitor scraping loops (dpyalq/digibook).              *)
(*                                                                         *)
(*   SpecTwitch         : ExtractDataPageTwitch, the live-chat loop with   *)
(*                        its dedup set, its buffer and the CSV it writes. *)
(*   SpecYouTube        : ExtractDataPageYouTube and its field extractors. *)
(*   SpecTiktokSnapshot : extract_all_data, the concurrent assembly of one *)
(*                        TikTok snapshot.                                 *)
(*                                                                         *)
(* The browser is the environment: every DOM lookup is an input drawn from *)
(* a small set (found / missing / another error), every page read a pair   *)
(* of bounded lists.                                                       *)
(***************************************************************************)
EXTENDS Integers, Sequences, FiniteSets, TLC

(***************************************************************************)
(* Bounds of the model.                                                    *)
(***************************************************************************)
\* twitch.py:72 compares with 140; the model scales the size guard down.
SizeGuard == 1
\* twitch.py:83 compares with 1000; the model scales the flush threshold down.
FlushThreshold == 1
\* Number of _create_csv calls one run of the model may make.
MaxWrites == 2

\* Longest list one page read yields: one more than the size guard, so that
\* the oversized case happens.
MaxList == SizeGuard + 1

Users == {"u1", "u2"}
Comments == {"c1", "c2"}

ListsOf(S) == UNION {[1..k -> S] : k \in 0..MaxList}

Min(a, b) == IF a <= b THEN a ELSE b

(***************************************************************************)
(* Outcomes of one DOM lookup (driver.find_element): the element is found, *)
(* NoSuchElementException, or any other exception of the driver.           *)
(***************************************************************************)
DomOutcomes == {"found", "missing", "error"}

VARIABLES
    \* ---- ExtractDataPageTwitch: locals of the function
    pc,             \* position in the function
    db,             \* the buffer: five columns
    seen_comments,  \* the dedup set
    bound,          \* which of the locals assigned inside the loop are bound
    usernames, comments, now, time_live, views,
    \* ---- the file system
    csv,            \* the CSV file: whether it exists, and its data rows
    \* ---- history of the run (not program state)
    appended,       \* comment -> how often it was appended to db
    offlineSeen,    \* _check_offline has returned True
    cause,          \* what ended the loop
    writes,         \* _create_csv calls made
    writeFailed,    \* some _create_csv call raised
    lastStep,       \* what the last step of the loop did
    origin,         \* what raised into a handler of the loop
    thresholdWrites, \* _create_csv calls made by the check of line 83
    \* ---- ExtractDataPageYouTube
    ytidx,          \* index of the next field of the dict literal
    ytstatus,       \* running, done (returned) or raised
    ytdata,         \* the fields evaluated so far
    ytlast,         \* the last extractor call: function, handled, raised
    ytfailed,       \* fields whose extractor ran an except-handler
    ytlookups,      \* history: what the lookups of the last extractor call met
    \* ---- extract_all_data (TikTok)
    tkpc,           \* submit, collect, returned or raised
    tkTask,         \* key -> what the future of that extractor holds
    tkPending,      \* futures as_completed has not yielded yet
    tkResults,      \* the results dict
    tkData,         \* the assembled record
    tkKeyOrder,     \* the keys of the record and of its comment, as inserted
    tkFirst,        \* history: the key of the future that completed first
    \* ---- ExtractDataPageTiktok
    tlpc,           \* position in the function
    tlstep,         \* index of the inner for loop (tiktok.py:51)
    tldata,         \* the local data
    tlret,          \* what the function returns
    tlfiles,        \* the file system: path -> JSON document
    tlsaves,        \* history: the _save_to_json calls made
    tlexc,          \* the exception raised in the loop body, if any
    tlorigin,       \* history: what raised it
    tlticks,        \* history: snapshots assembled
    tlassembled,    \* history: the snapshot assembled last
    tlprev,         \* history: the snapshot assembled before that one
    tlcaptcha,      \* history: what the page held at the last captcha lookup of this step
    tllogin,        \* history: what the page held at the last login lookup of this step
    tlcleared,      \* history: the gates met in this step that have cleared
    tlcmds,         \* history: main-page detections and driver commands of this step
    tlraw,          \* history: the line typed at the prompt of this tick
    \* ---- two calls of _create_csv on one path
    cvpc,           \* calls made
    cvA, cvB,       \* the buffers of the first and of the second call
    cvFile,         \* the file at that path
    \* ---- DetectPlatform
    dpUrl,          \* the argument url, as a sequence of pieces
    dpResult,       \* the value returned
    \* ---- _save_to_json and the document read back
    jspc,           \* position: "start", "saved", "loaded"
    jsData,         \* the dict given to _save_to_json
    jsFile,         \* the file at name_folder/name_file
    jsLoaded,       \* the value json.load returns for that file
    \* ---- ExtractDataPageTiktok: the waits of the loop (tiktok.py:84-101)
    wtpc,           \* position: draw, test and sleep of either wait
    wtstep,         \* inner steps done in this outer iteration
    new_scroll_wait_time, previous_scroll_wait_time,
    new_wait_time, previous_wait_time,
    wtScrollSleeps, \* history: the last two scroll waits slept
    wtTickSleeps,   \* history: the last two between-tick waits slept
    wtRerolled,     \* history: the wait slept last was drawn more than once
    \* ---- ScrollDownPageYouTube
    sdpc,           \* position: start, loop, returned or raised
    page_init_height, page_last_height, current_attempt,
    sdMeasured,     \* history: the last five heights measured
    sdChanged,      \* history: the last attempt measured another height than the one before
    sdParity        \* history: attempts made so far, modulo 2

twitchVars == <<pc, db, seen_comments, bound, usernames, comments, now,
                time_live, views, csv, appended, offlineSeen, cause, writes,
                writeFailed, lastStep, origin, thresholdWrites>>

ytVars == <<ytidx, ytstatus, ytdata, ytlast, ytfailed, ytlookups>>

tkVars == <<tkpc, tkTask, tkPending, tkResults, tkData, tkKeyOrder, tkFirst>>

tlVars == <<tlpc, tlstep, tldata, tlret, tlfiles, tlsaves, tlexc, tlorigin,
            tlticks, tlassembled, tlprev, tlcaptcha, tllogin, tlcleared, tlcmds,
            tlraw>>

cvVars == <<cvpc, cvA, cvB, cvFile>>

dpVars == <<dpUrl, dpResult>>

jsVars == <<jspc, jsData, jsFile, jsLoaded>>

wtVars == <<wtpc, wtstep, new_scroll_wait_time, previous_scroll_wait_time,
            new_wait_time, previous_wait_time, wtScrollSleeps, wtTickSleeps,
            wtRerolled>>

sdVars == <<sdpc, page_init_height, page_last_height, current_attempt,
            sdMeasured, sdChanged, sdParity>>

vars == <<twitchVars, ytVars, tkVars, tlVars, cvVars, dpVars, jsVars, wtVars,
          sdVars>>

\* What a step of one function leaves alone: the state of the others.
NotTwitch == <<ytVars, tkVars, tlVars, cvVars, dpVars, jsVars, wtVars,
    sdVars>>
NotYouTube == <<twitchVars, tkVars, tlVars, cvVars, dpVars, jsVars, wtVars,
    sdVars>>
NotTiktok == <<twitchVars, ytVars, tlVars, cvVars, dpVars, jsVars, wtVars,
    sdVars>>
NotTiktokLoop == <<twitchVars, ytVars, tkVars, cvVars, dpVars, jsVars, wtVars,
    sdVars>>
NotCsv == <<twitchVars, ytVars, tkVars, tlVars, dpVars, jsVars, wtVars,
    sdVars>>
NotDetect == <<twitchVars, ytVars, tkVars, tlVars, cvVars, jsVars, wtVars,
    sdVars>>
NotJson == <<twitchVars, ytVars, tkVars, tlVars, cvVars, dpVars, wtVars,
    sdVars>>
NotWaits == <<twitchVars, ytVars, tkVars, tlVars, cvVars, dpVars, jsVars,
    sdVars>>
NotScroll == <<twitchVars, ytVars, tkVars, tlVars, cvVars, dpVars, jsVars,
    wtVars>>

NoFile == [exists |-> FALSE, rows |-> <<>>]

EmptyDb == [date_scraping |-> <<>>, time_live |-> <<>>, views |-> <<>>,
            username |-> <<>>, comment |-> <<>>]

\* Row i of a buffer, as pandas.DataFrame(data) builds it from the columns.
RowOf(d, i) == [date_scraping |-> d.date_scraping[i], time_live |-> d.time_live[i],
                views |-> d.views[i], username |-> d.username[i],
                comment |-> d.comment[i]]

DbLen(d) == Len(d.date_scraping)

DataFrame(d) == [i \in 1..DbLen(d) |-> RowOf(d, i)]

(***************************************************************************)
(* The except-handlers of the field extractors look their own function up  *)
(* in the locals of the calling frame:                                     *)
(*     inspect.currentframe().f_back.f_locals[func_name]                   *)
(* which is a KeyError unless the caller holds the function in a local.    *)
(***************************************************************************)
HandlerLookup(func_name, callerLocals) ==
    IF func_name \in callerLocals THEN "docstring" ELSE "KeyError"

\* Names bound in the frame of ExtractDataPageTwitch (twitch.py:30-128).
TwitchLocals == {"driver", "name_folder", "name_file", "db", "seen_comments",
                 "html_content", "time_live", "views", "usernames", "comments",
                 "now", "username", "comment", "script", "e"}

\* What a call gives its caller: a value returned by the try body, a value
\* returned by an except-handler, or an exception.
Returned(v) == [raised |-> FALSE, handled |-> FALSE, value |-> v]
Handled(v) == [raised |-> FALSE, handled |-> TRUE, value |-> v]
Raised(x) == [raised |-> TRUE, handled |-> TRUE, value |-> x]

\* The except-handlers of the extractors (e.g. twitch.py:191-200): look the
\* docstring up, log the warning, return the sentinel.
ExceptHandler(func_name, callerLocals, sentinel) ==
    IF HandlerLookup(func_name, callerLocals) = "KeyError"
    THEN Raised("KeyError")
    ELSE Handled(sentinel)

\* _extract_views (twitch.py:187-200): the text, or the handler's outcome.
_extract_views(outcome, callerLocals) ==
    IF outcome = "found" THEN Returned("v")
    ELSE ExceptHandler("_extract_views", callerLocals, "None")

\* _extract_time_live (twitch.py:203-216): its sentinel is the empty list.
_extract_time_live(outcome, callerLocals) ==
    IF outcome = "found" THEN Returned("t")
    ELSE ExceptHandler("_extract_time_live", callerLocals, "[]")

\* _check_offline (twitch.py:241-248): True only when the marker is found.
_check_offline(outcome) == outcome = "found"

\* _check_element_comments_presence (twitch.py:219-238).
_check_element_comments_presence(outcome) == outcome = "found"

(***************************************************************************)
(* The dedup loop, written four times in the source (twitch.py:50-57,      *)
(* 74-81, 107-114, 118-125): for each pair of zip(usernames, comments),    *)
(* admit the comment if it is not in seen_comments and append one row.     *)
(***************************************************************************)
AppendRow(d, u, c) ==
    [date_scraping |-> Append(d.date_scraping, now),
     time_live |-> Append(d.time_live, time_live),
     views |-> Append(d.views, views),
     username |-> Append(d.username, u),
     comment |-> Append(d.comment, c)]

\* The membership test of the dedup loop left out.
AdmitsEverything(s, c) == TRUE

Admits(s, c) == c \notin s

RECURSIVE FilterUnique(_, _, _, _)
FilterUnique(i, d, s, cnt) ==
    IF i > Min(Len(usernames), Len(comments))
    THEN [db |-> d, seen |-> s, count |-> cnt]
    ELSE IF Admits(s, comments[i])
         THEN FilterUnique(i + 1, AppendRow(d, usernames[i], comments[i]),
                           s \cup {comments[i]},
                           [cnt EXCEPT ![comments[i]] = @ + 1])
         ELSE FilterUnique(i + 1, d, s, cnt)

Filtered == FilterUnique(1, db, seen_comments, appended)

\* The dedup loop after its first n pairs.
RECURSIVE FilterPrefix(_)
FilterPrefix(n) ==
    IF n = 0
    THEN [db |-> db, seen |-> seen_comments, count |-> appended]
    ELSE LET p == FilterPrefix(n - 1) IN
         IF Admits(p.seen, comments[n])
         THEN [db |-> AppendRow(p.db, usernames[n], comments[n]),
               seen |-> p.seen \cup {comments[n]},
               count |-> [p.count EXCEPT ![comments[n]] = @ + 1]]
         ELSE p

\* twitch.py:77-81: the five appends of a row are five statements, run in
\* this order; the row after the first k of them.
Columns == <<"date_scraping", "time_live", "views", "username", "comment">>

PartialRow(d, u, c, k) ==
    [f \in DOMAIN d |->
        IF \E j \in 1..k : Columns[j] = f THEN AppendRow(d, u, c)[f] ELSE d[f]]

\* The loop reads usernames and comments, and now, time_live and views once
\* it appends a row: an unbound one is an UnboundLocalError.
FilterNameError ==
    \/ ~({"usernames", "comments"} \subseteq bound)
    \/ /\ DbLen(Filtered.db) > DbLen(db)
       /\ ~({"now", "time_live", "views"} \subseteq bound)

\* seen_comments when the loop stops on the UnboundLocalError: the first
\* admitted comment was added before db['date_scraping'].append(now) raised.
SeenAtNameError ==
    IF {"usernames", "comments"} \subseteq bound
    THEN LET idx == {i \in 1..Min(Len(usernames), Len(comments)) :
                        Admits(seen_comments, comments[i])}
         IN IF idx = {} THEN seen_comments
            ELSE seen_comments \cup {comments[CHOOSE i \in idx : \A j \in idx : i <= j]}
    ELSE seen_comments

(***************************************************************************)
(* _create_csv (twitch.py:251-275): create the file with the rows of the   *)
(* buffer, or read the file, concatenate and rewrite it.                   *)
(***************************************************************************)
\* Texts that pandas.read_csv, called with its defaults (twitch.py:272),
\* reads as a missing value.
NaValues == {"", "NA", "N/A", "NULL", "NaN", "nan", "null"}

\* The missing value of a DataFrame read back from a file.
NaN == "float:nan"

\* pandas.read_csv on one cell of the file.
ReadCsvCell(text) == IF text \in NaValues THEN NaN ELSE text

\* DataFrame.to_csv on one cell: a missing value is written as the empty
\* text (na_rep = ''), a string as it is.
ToCsvCell(value) == IF value = NaN THEN "" ELSE value

ReadCsv(rows) ==
    [i \in 1..Len(rows) |-> [f \in DOMAIN rows[i] |-> ReadCsvCell(rows[i][f])]]

ToCsv(frame) ==
    [i \in 1..Len(frame) |-> [f \in DOMAIN frame[i] |-> ToCsvCell(frame[i][f])]]

_create_csv(file, data) ==
    IF ~file.exists
    THEN [exists |-> TRUE, rows |-> ToCsv(DataFrame(data))]
    ELSE [exists |-> TRUE, rows |-> ToCsv(ReadCsv(file.rows) \o DataFrame(data))]

TwitchInit ==
    /\ pc = "loop"
    /\ db = EmptyDb
    /\ seen_comments = {}
    /\ bound = {}
    /\ usernames = <<>>
    /\ comments = <<>>
    /\ now = ""
    /\ time_live = ""
    /\ views = ""
    /\ csv = NoFile
    /\ appended = [c \in Comments |-> 0]
    /\ offlineSeen = FALSE
    /\ cause = "none"
    /\ writes = 0
    /\ writeFailed = FALSE
    /\ lastStep = "init"
    /\ origin = "none"
    /\ thresholdWrites = 0

Locals == <<bound, usernames, comments, now, time_live, views>>

\* twitch.py:48: if _check_offline(driver)
CheckOffline ==
    /\ pc = "loop"
    /\ \E o \in DomOutcomes :
          /\ pc' = IF _check_offline(o) THEN "offline" ELSE "presence"
          /\ offlineSeen' = (offlineSeen \/ _check_offline(o))
    /\ lastStep' = "check_offline"
    /\ UNCHANGED <<db, seen_comments, Locals, csv, appended, cause, writes, writeFailed>>
    /\ UNCHANGED <<origin, thresholdWrites>>
    /\ UNCHANGED NotTwitch

(***************************************************************************)
(* twitch.py:49-60, the offline branch: the dedup loop and the write run   *)
(* inside try ... except: break, and nothing follows the write, so that a  *)
(* branch that ran without raising falls through to line 61.               *)
(***************************************************************************)
OfflineNext == "presence"

OfflineBranch ==
    /\ pc = "offline"
    /\ writes < MaxWrites
    /\ IF FilterNameError
       THEN /\ pc' = "done"
            /\ cause' = "offline"
            /\ seen_comments' = SeenAtNameError
            /\ lastStep' = "offline_break"
            /\ UNCHANGED <<db, csv, appended, writes, writeFailed>>
       ELSE /\ db' = Filtered.db
            /\ seen_comments' = Filtered.seen
            /\ appended' = Filtered.count
            /\ writes' = writes + 1
            /\ \E ok \in BOOLEAN :
                  IF ok
                  THEN /\ csv' = _create_csv(csv, Filtered.db)
                       /\ pc' = OfflineNext
                       /\ cause' = IF OfflineNext = "done" THEN "offline" ELSE cause
                       /\ lastStep' = "offline_write"
                       /\ UNCHANGED writeFailed
                  ELSE /\ pc' = "done"
                       /\ cause' = "offline"
                       /\ writeFailed' = TRUE
                       /\ lastStep' = "offline_break"
                       /\ UNCHANGED csv
    /\ UNCHANGED <<Locals, offlineSeen>>
    /\ UNCHANGED <<origin, thresholdWrites>>
    /\ UNCHANGED NotTwitch

\* KeyboardInterrupt inside the offline branch (twitch.py:49-60): the bare
\* except catches it and breaks, before the dedup loop or before the write.
OfflineInterrupt ==
    /\ pc = "offline"
    /\ \E afterLoop \in BOOLEAN :
          IF afterLoop /\ ~FilterNameError
          THEN /\ db' = Filtered.db
               /\ seen_comments' = Filtered.seen
               /\ appended' = Filtered.count
          ELSE UNCHANGED <<db, seen_comments, appended>>
    /\ pc' = "done"
    /\ cause' = "offline"
    /\ lastStep' = "offline_break"
    /\ UNCHANGED <<Locals, csv, offlineSeen, writes, writeFailed>>
    /\ UNCHANGED <<origin, thresholdWrites>>
    /\ UNCHANGED NotTwitch

(***************************************************************************)
(* twitch.py:105-127, the two handlers of the loop body (the same code     *)
(* twice): the dedup loop over the locals as they are, the write, break.   *)
(* An exception raised inside a handler leaves the function.               *)
(***************************************************************************)
Handler(kind) ==
    /\ cause' = kind
    /\ IF FilterNameError
       THEN /\ pc' = "raised"
            /\ seen_comments' = SeenAtNameError
            /\ lastStep' = "handler_name_error"
            /\ UNCHANGED <<db, csv, appended, writes, writeFailed>>
       ELSE /\ db' = Filtered.db
            /\ seen_comments' = Filtered.seen
            /\ appended' = Filtered.count
            /\ writes' = writes + 1
            /\ \E ok \in BOOLEAN :
                  IF ok
                  THEN /\ csv' = _create_csv(csv, Filtered.db)
                       /\ pc' = "done"
                       /\ lastStep' = "handler_write"
                       /\ UNCHANGED writeFailed
                  ELSE /\ pc' = "raised"
                       /\ writeFailed' = TRUE
                       /\ lastStep' = "handler_write_failed"
                       /\ UNCHANGED csv
    /\ UNCHANGED <<Locals, offlineSeen>>

\* Positions of the loop body outside the offline branch (twitch.py:48,
\* 61-104), where a KeyboardInterrupt reaches the handler of line 105.
BodyPcs == {"loop", "presence", "time_live", "views", "usernames", "comments",
            "now", "filter", "threshold", "reset"}

KeyboardInterrupt ==
    /\ pc \in BodyPcs
    /\ Handler("KeyboardInterrupt")
    /\ origin' = "interrupt"
    /\ UNCHANGED thresholdWrites
    /\ UNCHANGED NotTwitch

\* Driver calls of the body that raise (twitch.py:64 page_source, :102
\* execute_script, :104 refresh): the handler of line 117.
DriverException ==
    /\ pc \in {"presence", "time_live", "filter"}
    /\ Handler("Exception")
    /\ origin' = "driver"
    /\ UNCHANGED thresholdWrites
    /\ UNCHANGED NotTwitch

\* The refresh followed by the extraction of the same tick.
RefreshThenExtract == "time_live"

\* twitch.py:103-104, 46: driver.refresh() is the last statement of the
\* body, the while loop starts the next tick.
RefreshNext == "loop"

\* twitch.py:61, 103-104: the chat container is looked up; absent, the page
\* is refreshed and the tick ends.
CheckPresence ==
    /\ pc = "presence"
    /\ \E o \in DomOutcomes :
          IF _check_element_comments_presence(o)
          THEN /\ pc' = "time_live"
               /\ lastStep' = "present"
          ELSE /\ pc' = RefreshNext
               /\ lastStep' = "refresh"
    /\ UNCHANGED <<db, seen_comments, Locals, csv, appended, offlineSeen, cause,
                   writes, writeFailed>>
    /\ UNCHANGED <<origin, thresholdWrites>>
    /\ UNCHANGED NotTwitch

\* What leaves an extractor whose lookup failed and reaches the handler of
\* line 117: the lookup met NoSuchElementException or another exception.
ExtractorFailure(outcome) ==
    IF outcome = "missing" THEN "missing_element" ELSE "lookup_error"

\* twitch.py:66: time_live = _extract_time_live(driver)
ExtractTimeLive ==
    /\ pc = "time_live"
    /\ \E o \in DomOutcomes :
          LET r == _extract_time_live(o, TwitchLocals) IN
          IF r.raised
          THEN /\ Handler("Exception")
               /\ origin' = ExtractorFailure(o)
          ELSE /\ time_live' = r.value
               /\ UNCHANGED origin
               /\ bound' = bound \cup {"time_live"}
               /\ pc' = "views"
               /\ lastStep' = "time_live"
               /\ UNCHANGED <<db, seen_comments, usernames, comments, now, views,
                              csv, appended, offlineSeen, cause, writes, writeFailed>>
    /\ UNCHANGED thresholdWrites
    /\ UNCHANGED NotTwitch

\* twitch.py:67: views = _extract_views(driver)
ExtractViews ==
    /\ pc = "views"
    /\ \E o \in DomOutcomes :
          LET r == _extract_views(o, TwitchLocals) IN
          IF r.raised
          THEN /\ Handler("Exception")
               /\ origin' = ExtractorFailure(o)
          ELSE /\ views' = r.value
               /\ UNCHANGED origin
               /\ bound' = bound \cup {"views"}
               /\ pc' = "usernames"
               /\ lastStep' = "views"
               /\ UNCHANGED <<db, seen_comments, usernames, comments, now, time_live,
                              csv, appended, offlineSeen, cause, writes, writeFailed>>
    /\ UNCHANGED thresholdWrites
    /\ UNCHANGED NotTwitch

\* twitch.py:68: usernames = _extract_usernames_comments(html_content), the
\* texts of the display-name spans of the page read at line 64.
ExtractUsernames ==
    /\ pc = "usernames"
    /\ \E us \in ListsOf(Users) : usernames' = us
    /\ bound' = bound \cup {"usernames"}
    /\ pc' = "comments"
    /\ lastStep' = "usernames"
    /\ UNCHANGED <<db, seen_comments, comments, now, time_live, views, csv,
                   appended, offlineSeen, cause, writes, writeFailed>>
    /\ UNCHANGED <<origin, thresholdWrites>>
    /\ UNCHANGED NotTwitch

\* twitch.py:69: comments = _extract_texts_comments(html_content)
ExtractComments ==
    /\ pc = "comments"
    /\ \E cs \in ListsOf(Comments) : comments' = cs
    /\ bound' = bound \cup {"comments"}
    /\ pc' = "now"
    /\ lastStep' = "comments"
    /\ UNCHANGED <<db, seen_comments, usernames, now, time_live, views, csv,
                   appended, offlineSeen, cause, writes, writeFailed>>
    /\ UNCHANGED <<origin, thresholdWrites>>
    /\ UNCHANGED NotTwitch

\* twitch.py:71: now = datetime.datetime.now().strftime(...)
StampNow ==
    /\ pc = "now"
    /\ now' = "now"
    /\ bound' = bound \cup {"now"}
    /\ pc' = "filter"
    /\ lastStep' = "now"
    /\ UNCHANGED <<db, seen_comments, usernames, comments, time_live, views, csv,
                   appended, offlineSeen, cause, writes, writeFailed>>
    /\ UNCHANGED <<origin, thresholdWrites>>
    /\ UNCHANGED NotTwitch

\* twitch.py:72: the extraction is kept when the lists pair up and hold at
\* most 140 entries.
WellFormed(us, cs) == Len(us) = Len(cs) /\ Len(us) <= SizeGuard

\* twitch.py:94: elif len(usernames) > 140 or len(comments) > 140
Oversized(us, cs) == Len(us) > SizeGuard \/ Len(cs) > SizeGuard

\* twitch.py:72-81, 94-102: admit the pairs of a well-formed extraction; run
\* the DOM-cleanup script on an oversized one; otherwise do nothing.
FilterTick ==
    /\ pc = "filter"
    /\ IF WellFormed(usernames, comments)
       THEN /\ db' = Filtered.db
            /\ seen_comments' = Filtered.seen
            /\ appended' = Filtered.count
            /\ pc' = "threshold"
            /\ lastStep' = "admit"
       ELSE /\ pc' = "loop"
            /\ lastStep' = IF Oversized(usernames, comments) THEN "cleanup" ELSE "skip"
            /\ UNCHANGED <<db, seen_comments, appended>>
    /\ UNCHANGED <<Locals, csv, offlineSeen, cause, writes, writeFailed>>
    /\ UNCHANGED <<origin, thresholdWrites>>
    /\ UNCHANGED NotTwitch

\* A KeyboardInterrupt arriving in the dedup loop of the body between two
\* appends of a row (twitch.py:77-81).  The handler of line 105 runs its own
\* dedup loop, which skips the comment already in seen_comments, and calls
\* _create_csv, where pd.DataFrame (twitch.py:263) raises ValueError on
\* columns of unequal length: the exception leaves the function.
InterruptMidRow ==
    /\ pc = "filter"
    /\ WellFormed(usernames, comments)
    /\ \E i \in 1..Len(comments), k \in 1..(Len(Columns) - 1) :
          LET p == FilterPrefix(i - 1)
              torn == PartialRow(p.db, usernames[i], comments[i], k)
              h == FilterUnique(1, torn, p.seen \cup {comments[i]}, p.count)
          IN /\ Admits(p.seen, comments[i])
             /\ db' = h.db
             /\ seen_comments' = h.seen
             /\ appended' = h.count
    /\ pc' = "raised"
    /\ cause' = "KeyboardInterrupt"
    /\ origin' = "interrupt"
    /\ writes' = writes + 1
    /\ writeFailed' = TRUE
    /\ lastStep' = "handler_write_failed"
    /\ UNCHANGED <<Locals, csv, offlineSeen, thresholdWrites>>
    /\ UNCHANGED NotTwitch

\* The check of line 83 with the threshold left out.
ExceedsNothing(d) == DbLen(d) >= 0

\* twitch.py:83: if len(db['date_scraping']) > 1000
ExceedsThreshold(d) == DbLen(d) > FlushThreshold

\* twitch.py:83-85: the threshold write; a _create_csv that raises is caught
\* by the handler of line 117.
ThresholdCheck ==
    /\ pc = "threshold"
    /\ IF ExceedsThreshold(db)
       THEN /\ writes < MaxWrites
            /\ \E ok \in BOOLEAN :
                  IF ok
                  THEN /\ csv' = _create_csv(csv, db)
                       /\ writes' = writes + 1
                       /\ thresholdWrites' = thresholdWrites + 1
                       /\ pc' = "reset"
                       /\ lastStep' = "threshold_write"
                       /\ UNCHANGED <<db, seen_comments, Locals, appended,
                                      offlineSeen, cause, writeFailed, origin>>
                  ELSE /\ Handler("Exception")
                       /\ origin' = "write"
                       /\ UNCHANGED thresholdWrites
       ELSE /\ pc' = "loop"
            /\ lastStep' = "below_threshold"
            /\ UNCHANGED <<db, seen_comments, Locals, csv, appended, offlineSeen,
                           cause, writes, writeFailed, origin, thresholdWrites>>
    /\ UNCHANGED NotTwitch

\* twitch.py:86: db = {...}, the reset after the threshold write.
ResetBuffer ==
    /\ pc = "reset"
    /\ db' = EmptyDb
    /\ pc' = "loop"
    /\ lastStep' = "reset"
    /\ UNCHANGED <<seen_comments, Locals, csv, appended, offlineSeen, cause,
                   writes, writeFailed>>
    /\ UNCHANGED <<origin, thresholdWrites>>
    /\ UNCHANGED NotTwitch

TwitchNext ==
    \/ CheckOffline
    \/ OfflineBranch
    \/ OfflineInterrupt
    \/ CheckPresence
    \/ ExtractTimeLive
    \/ ExtractViews
    \/ ExtractUsernames
    \/ ExtractComments
    \/ StampNow
    \/ FilterTick
    \/ ThresholdCheck
    \/ ResetBuffer
    \/ KeyboardInterrupt
    \/ InterruptMidRow
    \/ DriverException


(***************************************************************************)
(* ExtractDataPageYouTube (youtube.py:73-135) and its field extractors.    *)
(* One page is the input: per extractor the outcome of its lookups and the *)
(* items they yield.                                                       *)
(***************************************************************************)
\* Most items one find_elements call of the YouTube extractors yields.
YtMaxItems == 2

\* Names bound in the frame of ExtractDataPageYouTube (youtube.py:73-135).
YouTubeLocals == {"driver", "data", "username", "emoji", "n_like", "n_response",
                  "date"}

\* The dict literal of youtube.py:104-123 in evaluation order, after
\* date_scraping.
YtFields == <<"url_post", "channel_name", "count_subscribers", "id_channel",
              "title", "description", "views", "count_comment", "count_likes",
              "upload", "username", "emoji", "n_like", "n_response", "date">>

YtListFields == {"username", "emoji", "n_like", "n_response", "date"}

YtSchema == {"date_scraping"} \cup {YtFields[i] : i \in 1..Len(YtFields)}

\* The documented sentinel of a field: 'None' for a scalar, [] for a list.
YtIsSentinel(f, v) == IF f \in YtListFields THEN v = <<>> ELSE v = "None"

\* youtube.py:138-154: driver.current_url
yt_extract_url_post(inp, L) ==
    IF inp.o1 = "found" THEN Returned("url")
    ELSE ExceptHandler("_extract_url_post", L, "None")

\* youtube.py:157-254, 318-340: one find_element, its text or attribute.
yt_extract_single(func_name, inp, L) ==
    IF inp.o1 = "found" THEN Returned("text")
    ELSE ExceptHandler(func_name, L, "None")

\* youtube.py:257-289: the primary locator, on NoSuchElementException the
\* secondary one; an exception of the secondary lookup other than
\* NoSuchElementException is raised inside the except clause and is not
\* caught by the outer except Exception.
yt_extract_count_views(inp, L) ==
    IF inp.o1 = "found" THEN Returned("text")
    ELSE IF inp.o1 = "missing"
         THEN IF inp.o2 = "found" THEN Returned("text2")
              ELSE IF inp.o2 = "missing"
                   THEN ExceptHandler("_extract_count_views", L, "None")
                   ELSE Raised("WebDriverException")
         ELSE ExceptHandler("_extract_count_views", L, "None")

\* ' '.join(elements) for the texts of the count spans.
Join(items) ==
    CASE Len(items) = 0 -> ""
      [] Len(items) = 1 -> "n"
      [] Len(items) = 2 -> "n n"
      [] OTHER -> "n n n"

\* youtube.py:292-315: find_elements, the texts joined.
yt_extract_count_comments(inp, L) ==
    IF inp.o1 = "found" THEN Returned(Join(inp.items))
    ELSE ExceptHandler("_extract_count_comments", L, "None")

\* youtube.py:343-371: find_elements(...)[2]; with fewer than three elements
\* ("few") the index raises IndexError, which is not NoSuchElementException.
yt_extract_upload(inp, L) ==
    IF inp.o1 = "found" THEN Returned("text")
    ELSE IF inp.o1 = "missing"
         THEN IF inp.o2 = "found" THEN Returned("text2")
              ELSE IF inp.o2 = "missing"
                   THEN ExceptHandler("_extract_upload", L, "None")
                   ELSE Raised("WebDriverException")
         ELSE ExceptHandler("_extract_upload", L, "None")

\* youtube.py:374-408: click the expander (o1) and read the expanded text
\* (o2), or without an expander read the inline text (o3). The inner handler
\* of line 391 runs inside the outer try, so what it raises reaches the
\* outer except Exception.
yt_extract_description(inp, L) ==
    IF inp.o1 = "found"
    THEN IF inp.o2 = "found" THEN Returned("text")
         ELSE IF inp.o2 = "missing"
              THEN LET h == ExceptHandler("_extract_description", L, "None")
                   IN IF h.raised
                      THEN ExceptHandler("_extract_description", L, "None")
                      ELSE h
              ELSE ExceptHandler("_extract_description", L, "None")
    ELSE IF inp.o1 = "missing"
         THEN IF inp.o3 = "found" THEN Returned("text3")
              ELSE IF inp.o3 = "missing"
                   THEN ExceptHandler("_extract_description", L, "None")
                   ELSE Raised("WebDriverException")
         ELSE ExceptHandler("_extract_description", L, "None")

\* youtube.py:411-458, 498-580: find_elements and one value per element;
\* a lookup inside an element that fails gives None for that element.
yt_extract_list(func_name, inp, L) ==
    IF inp.o1 = "found" THEN Returned(inp.items)
    ELSE ExceptHandler(func_name, L, <<>>)

\* youtube.py:483: a pair whose text and emoji list are both empty.
IsEmptyPair(p) == Len(p.text) = 0 /\ Len(p.emojis) = 0

\* list.remove(item): the first element equal to item is removed.
RECURSIVE ListRemove(_, _)
ListRemove(els, item) ==
    IF els = <<>> THEN <<>>
    ELSE IF Head(els) = item THEN Tail(els)
         ELSE <<Head(els)>> \o ListRemove(Tail(els), item)

\* youtube.py:482-484: for item in elements, removing while iterating: the
\* iterator keeps its index.
RECURSIVE RemovePass(_, _)
RemovePass(els, idx) ==
    IF idx > Len(els) THEN els
    ELSE IF IsEmptyPair(els[idx])
         THEN RemovePass(ListRemove(els, els[idx]), idx + 1)
         ELSE RemovePass(els, idx + 1)

\* One pass over the list instead of len(elements) passes.
OnePass(els, n) == IF n = 0 THEN els ELSE RemovePass(els, 1)

\* youtube.py:481: for i in range(len(elements)), the length read once.
RECURSIVE RemovePasses(_, _)
RemovePasses(els, n) ==
    IF n = 0 THEN els ELSE RemovePasses(RemovePass(els, 1), n - 1)

\* youtube.py:461-495
yt_extract_comments_emojis(inp, L) ==
    IF inp.o1 = "found" THEN Returned(RemovePasses(inp.items, Len(inp.items)))
    ELSE ExceptHandler("_extract_comments_emojis", L, <<>>)

YtExtract(f, inp, L) ==
    CASE f = "url_post" -> yt_extract_url_post(inp, L)
      [] f = "channel_name" -> yt_extract_single("_extract_name_channel", inp, L)
      [] f = "count_subscribers" -> yt_extract_single("_extract_count_subscribers", inp, L)
      [] f = "id_channel" -> yt_extract_single("_extract_id_channel", inp, L)
      [] f = "title" -> yt_extract_single("_extract_title_post", inp, L)
      [] f = "description" -> yt_extract_description(inp, L)
      [] f = "views" -> yt_extract_count_views(inp, L)
      [] f = "count_comment" -> yt_extract_count_comments(inp, L)
      [] f = "count_likes" -> yt_extract_single("_extract_count_likes", inp, L)
      [] f = "upload" -> yt_extract_upload(inp, L)
      [] f = "username" -> yt_extract_list("_extract_usernames", inp, L)
      [] f = "emoji" -> yt_extract_comments_emojis(inp, L)
      [] f = "n_like" -> yt_extract_list("_extract_n_likes", inp, L)
      [] f = "n_response" -> yt_extract_list("_extract_n_responses", inp, L)
      [] f = "date" -> yt_extract_list("_extract_dates", inp, L)

YtItemLists(S) == UNION {[1..k -> S] : k \in 0..YtMaxItems}

EmojiPairs == {[text |-> <<>>, emojis |-> <<>>], [text |-> <<"h">>, emojis |-> <<>>],
               [text |-> <<>>, emojis |-> <<"src">>]}

\* The outcomes the lookups of one extractor can have on a page.
YtInputs(f) ==
    CASE f = "url_post" ->
            [o1 : {"found", "error"}, o2 : {"found"}, o3 : {"found"}, items : {<<>>}]
      [] f \in {"channel_name", "count_subscribers", "id_channel", "title", "count_likes"} ->
            [o1 : DomOutcomes, o2 : {"found"}, o3 : {"found"}, items : {<<>>}]
      [] f = "views" ->
            [o1 : DomOutcomes, o2 : DomOutcomes, o3 : {"found"}, items : {<<>>}]
      [] f = "upload" ->
            [o1 : {"found", "few", "error"}, o2 : DomOutcomes, o3 : {"found"}, items : {<<>>}]
      [] f = "description" ->
            [o1 : DomOutcomes, o2 : DomOutcomes, o3 : DomOutcomes, items : {<<>>}]
      [] f = "count_comment" ->
            [o1 : {"found", "error"}, o2 : {"found"}, o3 : {"found"},
             items : YtItemLists({"n"})]
      [] f \in {"username", "n_response"} ->
            [o1 : {"found", "error"}, o2 : {"found"}, o3 : {"found"},
             items : YtItemLists({"x", "None"})]
      [] f \in {"n_like", "date"} ->
            [o1 : {"found", "error"}, o2 : {"found"}, o3 : {"found"},
             items : YtItemLists({"x"})]
      [] f = "emoji" ->
            [o1 : {"found", "error"}, o2 : {"found"}, o3 : {"found"},
             items : YtItemLists(EmojiPairs)]

YtInit ==
    /\ ytidx = 1
    /\ ytstatus = "running"
    /\ ytdata = [f \in {"date_scraping"} |-> "now"]
    /\ ytlast = [fn |-> "none", handled |-> FALSE, raised |-> FALSE]
    /\ ytfailed = {}
    /\ ytlookups = [o1 |-> "none", o2 |-> "none", items |-> <<>>]

\* youtube.py:106-121: the next value of the dict literal is evaluated; an
\* exception leaving the extractor leaves ExtractDataPageYouTube.
YtExtractField ==
    /\ ytstatus = "running"
    /\ ytidx <= Len(YtFields)
    /\ \E inp \in YtInputs(YtFields[ytidx]) :
          LET f == YtFields[ytidx]
              r == YtExtract(f, inp, YouTubeLocals)
          IN /\ ytlast' = [fn |-> f, handled |-> r.handled, raised |-> r.raised]
             /\ ytlookups' = [o1 |-> inp.o1, o2 |-> inp.o2, items |-> inp.items]
             /\ ytfailed' = IF r.handled THEN ytfailed \cup {f} ELSE ytfailed
             /\ IF r.raised
                THEN /\ ytstatus' = "raised"
                     /\ UNCHANGED <<ytidx, ytdata>>
                ELSE /\ ytdata' = (f :> r.value) @@ ytdata
                     /\ ytidx' = ytidx + 1
                     /\ UNCHANGED ytstatus
    /\ UNCHANGED NotYouTube

\* youtube.py:124-135: the sizes are logged and data is returned.
YtReturn ==
    /\ ytstatus = "running"
    /\ ytidx = Len(YtFields) + 1
    /\ ytstatus' = "done"
    /\ UNCHANGED <<ytidx, ytdata, ytlast, ytfailed, ytlookups>>
    /\ UNCHANGED NotYouTube

YouTubeNext ==
    \/ YtExtractField
    \/ YtReturn

(***************************************************************************)
(* extract_all_data (tiktok.py:155-211): six extractors submitted to a     *)
(* thread pool, their futures collected in completion order.               *)
(***************************************************************************)
\* Most elements one find_elements call of the TikTok extractors yields.
TkMaxItems == 1

\* Names bound in the frame that calls a submitted function, the run method
\* of the pool's work item (tiktok.py:165-174, concurrent.futures.thread).
WorkerLocals == {"self", "result", "exc"}

\* tiktok.py:167-174: the values of the futures dict.
TkKeys == {"url_post", "usernames", "comments", "likes", "dates", "responses"}

\* tiktok.py:236-252: driver.current_url
tk_extract_url_post(inp, L) ==
    IF inp.o1 = "found" THEN Returned("url")
    ELSE ExceptHandler("_extract_url_post", L, "None")

\* tiktok.py:255-378: find_elements, then one find_element inside each
\* element; the first inner lookup that fails (failAt) ends the loop in the
\* handler, which returns the elements gathered so far.
tk_extract_list(func_name, inp, L) ==
    IF inp.o1 # "found" THEN ExceptHandler(func_name, L, <<>>)
    ELSE IF inp.failAt = 0 THEN Returned(inp.items)
         ELSE ExceptHandler(func_name, L, SubSeq(inp.items, 1, inp.failAt - 1))

\* tiktok.py:381-413: an inner lookup that fails appends 0 for that element.
tk_extract_n_responses(inp, L) ==
    IF inp.o1 # "found" THEN ExceptHandler("_extract_n_responses", L, <<>>)
    ELSE Returned(inp.items)

TkExtract(key, inp, L) ==
    CASE key = "url_post" -> tk_extract_url_post(inp, L)
      [] key = "usernames" -> tk_extract_list("_extract_usernames_comments", inp, L)
      [] key = "comments" -> tk_extract_list("_extract_comments", inp, L)
      [] key = "likes" -> tk_extract_list("_extract_n_likes", inp, L)
      [] key = "dates" -> tk_extract_list("_extract_dates", inp, L)
      [] key = "responses" -> tk_extract_n_responses(inp, L)

TkItemLists(S) == UNION {[1..k -> S] : k \in 0..TkMaxItems}

\* The outcomes the lookups of one extractor can have on a page.
TkInputs(key) ==
    CASE key = "url_post" -> [o1 : {"found", "error"}, items : {<<>>}, failAt : {0}]
      [] key = "responses" ->
            {i \in [o1 : {"found", "error"}, items : TkItemLists({"x", "0"}), failAt : {0}] :
                i.o1 = "error" => i.items = <<>>}
      [] OTHER ->
            {i \in [o1 : {"found", "error"}, items : TkItemLists({"x"}),
                    failAt : 0..TkMaxItems] :
                /\ i.failAt <= Len(i.items)
                /\ i.o1 = "error" => (i.items = <<>> /\ i.failAt = 0)}

\* Exceptions that the clause 'except Exception' catches (tiktok.py:189).
ExceptionClasses == {"KeyError", "NoSuchElementException", "WebDriverException"}

\* A narrower clause: except NoSuchElementException.
CaughtOnlyIfNoSuchElement(exc) == exc = "NoSuchElementException"

CaughtByExcept(exc) == exc \in ExceptionClasses

\* dict.get(key, default)
ResultsGet(results, key, default) ==
    IF key \in DOMAIN results THEN results[key] ELSE default

TkInit ==
    /\ tkpc = "submit"
    /\ tkTask = <<>>
    /\ tkPending = {}
    /\ tkResults = <<>>
    /\ tkData = <<>>
    /\ tkKeyOrder = [record |-> <<>>, comment |-> <<>>]
    /\ tkFirst = "none"

\* tiktok.py:165-177: the six extractors are submitted and run against the
\* page; each future ends holding a result or an exception.
TkSubmit ==
    /\ tkpc = "submit"
    /\ \E u \in TkInputs("url_post"), n \in TkInputs("usernames"),
          c \in TkInputs("comments"), l \in TkInputs("likes"),
          d \in TkInputs("dates"), r \in TkInputs("responses") :
          tkTask' = [k \in TkKeys |->
                        CASE k = "url_post" -> TkExtract(k, u, WorkerLocals)
                          [] k = "usernames" -> TkExtract(k, n, WorkerLocals)
                          [] k = "comments" -> TkExtract(k, c, WorkerLocals)
                          [] k = "likes" -> TkExtract(k, l, WorkerLocals)
                          [] k = "dates" -> TkExtract(k, d, WorkerLocals)
                          [] k = "responses" -> TkExtract(k, r, WorkerLocals)]
    /\ tkPending' = TkKeys
    /\ tkpc' = "collect"
    /\ UNCHANGED <<tkResults, tkData, tkKeyOrder, tkFirst>>
    /\ UNCHANGED NotTiktok

\* tiktok.py:167-174: the keys in the order their extractors are submitted.
TkSubmitted == <<"url_post", "usernames", "comments", "likes", "dates", "responses">>

\* Collection by completion order: the n-th list collected is stored under
\* the key of the n-th list extractor submitted.
StoreByCompletion(results, key, value) ==
    IF key = "url_post" THEN (key :> value) @@ results
    ELSE (TkSubmitted[Cardinality(DOMAIN results \ {"url_post"}) + 2] :> value) @@ results

\* tiktok.py:181-188: key = futures[future]; the result is stored under the
\* key of its own future (a list key only when it is not yet in results).
StoreResult(results, key, value) ==
    IF key \in {"usernames", "comments", "likes", "responses", "dates"}
    THEN IF key \notin DOMAIN results
         THEN (key :> value) @@ results
         ELSE results
    ELSE (key :> value) @@ results

\* tiktok.py:180-190: as_completed yields one more future, in any order;
\* its result is stored under its key, its exception printed.
TkCollect ==
    /\ tkpc = "collect"
    /\ \E key \in tkPending :
          /\ tkPending' = tkPending \ {key}
          /\ IF tkTask[key].raised
             THEN IF CaughtByExcept(tkTask[key].value)
                  THEN UNCHANGED <<tkpc, tkResults>>
                  ELSE tkpc' = "raised" /\ UNCHANGED tkResults
             ELSE /\ tkResults' = StoreResult(tkResults, key, tkTask[key].value)
                  /\ UNCHANGED tkpc
          /\ tkFirst' = IF tkFirst = "none" THEN key ELSE tkFirst
    /\ UNCHANGED <<tkTask, tkData, tkKeyOrder>>
    /\ UNCHANGED NotTiktok

\* tiktok.py:193-211: the record is assembled from results and returned.
TkAssemble ==
    /\ tkpc = "collect"
    /\ tkPending = {}
    /\ tkData' = [date_scraping |-> "2024-07-30 03:18:56",
                  url_post |-> ResultsGet(tkResults, "url_post", ""),
                  comment |-> [username |-> ResultsGet(tkResults, "usernames", <<>>),
                               n_like |-> ResultsGet(tkResults, "likes", <<>>),
                               n_response |-> ResultsGet(tkResults, "responses", <<>>),
                               date |-> ResultsGet(tkResults, "dates", <<>>)]]
    /\ tkKeyOrder' = [record |-> <<"date_scraping", "url_post", "comment">>,
                       comment |-> <<"username", "n_like", "n_response", "date">>]
    /\ tkpc' = "returned"
    /\ UNCHANGED <<tkTask, tkPending, tkResults, tkFirst>>
    /\ UNCHANGED NotTiktok

TiktokSnapshotNext ==
    \/ TkSubmit
    \/ TkCollect
    \/ TkAssemble

(***************************************************************************)
(* ExtractDataPageTiktok (tiktok.py:32-152): three gate-and-scroll steps,  *)
(* one snapshot, the prompt; 'except Exception' returns data, the outer    *)
(* finally saves it.                                                       *)
(***************************************************************************)
\* Snapshots one run of the model assembles.
MaxTicks == 2

\* tiktok.py:51: for _ in range(3)
ScrollSteps == 3

\* tiktok.py:43: data = {}
EmptyDict == [dict |-> "{}"]

\* The destination given by the caller, os.path.join(name_folder, name_file)
\* (tiktok.py:152, 227), and the one written at line 131.
Destination == "name_folder/name_file"
ExitPath == "out/tiktok.json"
TlPaths == {Destination, ExitPath}

NoJson == [exists |-> FALSE]

\* The records extract_all_data returns (tiktok.py:193-202): url_post is ''
\* and a list [] when its task failed or found nothing; a date can be the
\* empty text of its element.
TlSnapshots ==
    [date_scraping : {"2024-07-30 03:18:56"},
     url_post : {"", "url"},
     comment : [username : {<<>>, <<"x">>}, n_like : {<<>>, <<"x">>},
                n_response : {<<>>, <<"x">>}, date : {<<>>, <<"x">>, <<"">>}]]

\* tiktok.py:416-485, the four gate detectors: True when the marker is
\* found, False on NoSuchElementException; any other exception of the
\* lookup leaves the function.
TkGate(outcome) ==
    IF outcome = "found" THEN Returned(TRUE)
    ELSE IF outcome = "missing" THEN Handled(FALSE)
         ELSE Raised("WebDriverException")

\* A captcha detector that reports no marker whatever the page holds.
CaptchaBlind(outcome) == Handled(FALSE)

_check_captcha_exists(outcome) == TkGate(outcome)

\* A login detector that reports no marker whatever the page holds.
LoginBlind(outcome) == Handled(FALSE)

_check_login(outcome) == TkGate(outcome)

_check_main_page(outcome) == TkGate(outcome)
_check_without_login(outcome) == TkGate(outcome)

\* Exceptions of the body that are subclasses of Exception.
TlExceptionClasses == {"WebDriverException", "EOFError"}

\* A handler that catches nothing.
CaughtNothing(exc) == FALSE

\* tiktok.py:141: except Exception; KeyboardInterrupt is not one.
CaughtByLoop(exc) == exc \in TlExceptionClasses

\* tiktok.py:109-115: the argument of all(...) is the value of the 'and'
\* chain, the first falsy operand or else the last one; iterating '' or []
\* yields nothing.
CompletenessArg(d) ==
    IF d.url_post = "" THEN <<>>
    ELSE IF d.comment.username = <<>> THEN <<>>
    ELSE IF d.comment.n_like = <<>> THEN <<>>
    ELSE IF d.comment.n_response = <<>> THEN <<>>
    ELSE d.comment.date

\* all(iterable): every element is truthy.
PyAll(xs) == \A i \in 1..Len(xs) : xs[i] # ""

\* What the console hands to input(): a line of characters.
RawInputs == {<<"e", "x", "i", "t">>, <<" ", "E", "x", "I", "T", " ">>, <<"c">>,
              <<"e", "x", " ", "i", "t">>, <<>>}

\* No line has been typed.
NoAnswer == <<"unset">>

\* str.strip(): white space removed at both ends.
RECURSIVE lstrip(_)
lstrip(cs) == IF cs # <<>> /\ Head(cs) = " " THEN lstrip(Tail(cs)) ELSE cs

RECURSIVE rstrip(_)
rstrip(cs) ==
    IF cs # <<>> /\ cs[Len(cs)] = " " THEN rstrip(SubSeq(cs, 1, Len(cs) - 1)) ELSE cs

strip(cs) == rstrip(lstrip(cs))

\* str.lower() with the case left as typed.
KeepCase(c) == c

\* str.lower() on one character.
LowerChar(c) ==
    IF c = "E" THEN "e" ELSE IF c = "X" THEN "x" ELSE IF c = "I" THEN "i"
    ELSE IF c = "T" THEN "t" ELSE c

lower(cs) == [i \in 1..Len(cs) |-> LowerChar(cs[i])]

\* _save_to_json that writes nothing.
SaveNothing(files, data, path, ok) == files

\* _save_to_json (tiktok.py:214-233): the document is written to
\* name_folder/name_file; a write that fails is printed and not raised.
_save_to_json(files, data, path, ok) ==
    IF ok THEN [files EXCEPT ![path] = [exists |-> TRUE, content |-> data]]
    ELSE files

TlInit ==
    /\ tlpc = "captcha"
    /\ tlstep = 0
    /\ tldata = EmptyDict
    /\ tlret = [kind |-> "unset"]
    /\ tlfiles = [p \in TlPaths |-> NoJson]
    /\ tlsaves = <<>>
    /\ tlexc = "none"
    /\ tlorigin = "none"
    /\ tlticks = 0
    /\ tlassembled = EmptyDict
    /\ tlprev = EmptyDict
    /\ tlcaptcha = "unchecked"
    /\ tllogin = "unchecked"
    /\ tlcleared = {}
    /\ tlcmds = <<>>
    /\ tlraw = NoAnswer

TlHistory == <<tlticks, tlassembled, tlprev>>

\* What one inner step (tiktok.py:52-91) has met and done so far.
TlStepLog == <<tlcaptcha, tllogin, tlcleared, tlcmds>>

\* The inner step is over, or the next one has not started.
TlStepLogReset ==
    /\ tlcaptcha' = "unchecked"
    /\ tllogin' = "unchecked"
    /\ tlcleared' = {}
    /\ tlcmds' = <<>>

\* An exception raised in the loop body: caught at line 141, or on its way
\* out through the two finally clauses.
TlRaise(exc, org) ==
    /\ tlexc' = exc
    /\ tlorigin' = org
    /\ tlpc' = IF CaughtByLoop(exc) THEN "except" ELSE "final"
    /\ TlStepLogReset
    /\ UNCHANGED <<tlstep, tldata, tlret, tlfiles, tlsaves, TlHistory, tlraw>>

\* The body goes on at another position.
TlGoto(target) ==
    /\ tlpc' = target
    /\ UNCHANGED <<tlstep, tldata, tlret, tlfiles, tlsaves, tlexc, tlorigin, TlHistory>>
    /\ UNCHANGED <<TlStepLog, tlraw>>

\* The body goes on at another position; nothing but the position and the
\* history of the step changes.
TlMove(target) ==
    /\ tlpc' = target
    /\ UNCHANGED <<tlstep, tldata, tlret, tlfiles, tlsaves, tlexc, tlorigin, TlHistory>>

\* input(...): the user answers, or the console is closed (EOFError).
TlInput(target) ==
    \E answered \in BOOLEAN :
        IF answered THEN TlGoto(target) ELSE TlRaise("EOFError", "input")

\* tiktok.py:52, 55: if / while _check_captcha_exists(driver)
TlCheckCaptcha ==
    /\ tlpc = "captcha"
    /\ \E o \in DomOutcomes :
          LET r == _check_captcha_exists(o) IN
          IF r.raised THEN TlRaise(r.value, "gate")
          ELSE /\ TlMove(IF r.value THEN "captcha_wait" ELSE "login")
               /\ tlcaptcha' = o
               /\ tllogin' = "unchecked"
               /\ tlcleared' = IF tlcaptcha = "found" /\ ~r.value THEN {"captcha"} ELSE {}
               /\ tlcmds' = <<>>
               /\ tlraw' = NoAnswer
    /\ UNCHANGED NotTiktokLoop

\* tiktok.py:54, 57: input('Press Enter after you have closed the captcha...')
TlCaptchaWait ==
    /\ tlpc = "captcha_wait"
    /\ TlInput("captcha")
    /\ UNCHANGED NotTiktokLoop

\* tiktok.py:59: if _check_login(driver)
TlCheckLogin ==
    /\ tlpc = "login"
    /\ \E o \in DomOutcomes :
          LET r == _check_login(o) IN
          IF r.raised THEN TlRaise(r.value, "gate")
          ELSE /\ TlMove(IF r.value THEN "login_wait" ELSE "main_page")
               /\ tllogin' = o
               /\ UNCHANGED <<tlcaptcha, tlcleared, tlcmds, tlraw>>
    /\ UNCHANGED NotTiktokLoop

\* tiktok.py:60, 63: input('Press Enter after you have closed the login...')
TlLoginWait ==
    /\ tlpc = "login_wait"
    /\ TlInput("login_recheck")
    /\ UNCHANGED NotTiktokLoop

\* tiktok.py:61: while _check_login(driver)
TlRecheckLogin ==
    /\ tlpc = "login_recheck"
    /\ \E o \in DomOutcomes :
          LET r == _check_login(o) IN
          IF r.raised THEN TlRaise(r.value, "gate")
          ELSE /\ TlMove(IF r.value THEN "login_wait" ELSE "main_page_login")
               /\ tllogin' = o
               /\ tlcleared' = IF r.value THEN tlcleared ELSE tlcleared \cup {"login"}
               /\ UNCHANGED <<tlcaptcha, tlcmds, tlraw>>
    /\ UNCHANGED NotTiktokLoop

\* tiktok.py:65-68: what follows a main-page view detected after the login
\* gate; tiktok.py:71-74: what follows one detected at line 70.
AfterLoginCommands == <<"login_main_page", "back", "sleep(10)", "scrollTo", "sleep(1)">>
MainPageCommands == <<"main_page", "back", "sleep(4)", "scrollTo", "sleep(1)">>

\* tiktok.py:64-68 and 70-74: if _check_main_page(driver): driver.back(), a
\* delay and a scroll to the bottom; either command can raise.
TlCheckMainPage ==
    /\ tlpc \in {"main_page_login", "main_page"}
    /\ LET next == IF tlpc = "main_page_login" THEN "main_page" ELSE "without_login"
           issued == IF tlpc = "main_page_login" THEN AfterLoginCommands
                     ELSE MainPageCommands IN
       \E o \in DomOutcomes, driverOk \in BOOLEAN :
          LET r == _check_main_page(o) IN
          IF r.raised THEN TlRaise(r.value, "gate")
          ELSE IF r.value /\ ~driverOk THEN TlRaise("WebDriverException", "driver")
          ELSE /\ TlMove(next)
               /\ tlcmds' = IF r.value THEN tlcmds \o issued ELSE tlcmds
               /\ UNCHANGED <<tlcaptcha, tllogin, tlcleared, tlraw>>
    /\ UNCHANGED NotTiktokLoop

\* tiktok.py:76-82: if _check_without_login(driver): the click runs inside
\* try ... except: pass.
TlCheckWithoutLogin ==
    /\ tlpc = "without_login"
    /\ \E o \in DomOutcomes :
          LET r == _check_without_login(o) IN
          IF r.raised THEN TlRaise(r.value, "gate") ELSE TlGoto("scroll")
    /\ UNCHANGED NotTiktokLoop

\* tiktok.py:84-91: the scroll of one step; after the third step the body
\* goes on to the snapshot.
TlScroll ==
    /\ tlpc = "scroll"
    /\ \E driverOk \in BOOLEAN :
          IF ~driverOk THEN TlRaise("WebDriverException", "driver")
          ELSE /\ tlstep' = (tlstep + 1) % ScrollSteps
               /\ tlpc' = IF tlstep + 1 = ScrollSteps THEN "extract" ELSE "captcha"
               /\ tlcmds' = tlcmds \o <<"scrollBy", "sleep(wait)">>
               /\ UNCHANGED <<tldata, tlret, tlfiles, tlsaves, tlexc, tlorigin, TlHistory>>
               /\ UNCHANGED <<tlcaptcha, tllogin, tlcleared, tlraw>>
    /\ UNCHANGED NotTiktokLoop

\* tiktok.py:94-115, 138-139: data = extract_all_data(driver), then the
\* completeness check: the prompt, or the next tick.
TlExtract ==
    /\ tlpc = "extract"
    /\ tlticks < MaxTicks
    /\ \E snapshot \in TlSnapshots :
          /\ tldata' = snapshot
          /\ tlassembled' = snapshot
          /\ tlpc' = IF PyAll(CompletenessArg(snapshot)) THEN "prompt" ELSE "captcha"
    /\ tlprev' = tlassembled
    /\ tlticks' = tlticks + 1
    /\ TlStepLogReset
    /\ UNCHANGED <<tlstep, tlret, tlfiles, tlsaves, tlexc, tlorigin, tlraw>>
    /\ UNCHANGED NotTiktokLoop

\* tiktok.py:123-137: user_input = input(...).strip().lower(); 'exit' goes
\* on to the save and the break, 'c' and any other answer to the next tick;
\* a closed console raises EOFError.
TlPrompt ==
    /\ tlpc = "prompt"
    /\ \E answered \in BOOLEAN, raw \in RawInputs :
          IF ~answered THEN TlRaise("EOFError", "input")
          ELSE LET user_input == lower(strip(raw)) IN
               /\ TlMove(IF user_input = <<"e", "x", "i", "t">> THEN "exit_save"
                         ELSE "captcha")
               /\ tlraw' = raw
               /\ UNCHANGED TlStepLog
    /\ UNCHANGED NotTiktokLoop

\* tiktok.py:125-135: if data: _save_to_json(data, 'out', 'tiktok.json');
\* break. The outer finally follows.
TlExitSave ==
    /\ tlpc = "exit_save"
    /\ IF tldata # EmptyDict
       THEN \E ok \in BOOLEAN :
               /\ tlfiles' = _save_to_json(tlfiles, tldata, ExitPath, ok)
               /\ tlsaves' = Append(tlsaves, [path |-> ExitPath, data |-> tldata, ok |-> ok])
       ELSE UNCHANGED <<tlfiles, tlsaves>>
    /\ tlpc' = "final"
    /\ UNCHANGED <<tlstep, tldata, tlret, tlexc, tlorigin, TlHistory, TlStepLog, tlraw>>
    /\ UNCHANGED NotTiktokLoop

\* tiktok.py:141-143: print the error, return data.
TlExcept ==
    /\ tlpc = "except"
    /\ tlret' = [kind |-> "value", value |-> tldata]
    /\ tlpc' = "final"
    /\ UNCHANGED <<tlstep, tldata, tlfiles, tlsaves, tlexc, tlorigin, TlHistory>>
    /\ UNCHANGED <<TlStepLog, tlraw>>
    /\ UNCHANGED NotTiktokLoop

\* tiktok.py:146-152, the outer finally: _save_to_json(data, name_folder,
\* name_file); then the function returns (None after a break) or the
\* exception that was not caught goes on to the caller.
TlFinal ==
    /\ tlpc = "final"
    /\ \E ok \in BOOLEAN :
          /\ tlfiles' = _save_to_json(tlfiles, tldata, Destination, ok)
          /\ tlsaves' = Append(tlsaves, [path |-> Destination, data |-> tldata, ok |-> ok])
    /\ IF tlexc # "none" /\ ~CaughtByLoop(tlexc)
       THEN tlpc' = "raised" /\ UNCHANGED tlret
       ELSE /\ tlpc' = "returned"
            /\ tlret' = IF tlret.kind = "unset" THEN [kind |-> "None"] ELSE tlret
    /\ UNCHANGED <<tlstep, tldata, tlexc, tlorigin, TlHistory, TlStepLog, tlraw>>
    /\ UNCHANGED NotTiktokLoop

\* Positions inside the try of line 50.
TlBodyPcs == {"captcha", "captcha_wait", "login", "login_wait", "login_recheck",
              "main_page_login", "main_page", "without_login", "scroll",
              "extract", "prompt", "exit_save"}

\* Ctrl-C while the body runs or waits.
TlKeyboardInterrupt ==
    /\ tlpc \in TlBodyPcs
    /\ TlRaise("KeyboardInterrupt", "interrupt")
    /\ UNCHANGED NotTiktokLoop

TiktokLoopNext ==
    \/ TlCheckCaptcha
    \/ TlCaptchaWait
    \/ TlCheckLogin
    \/ TlLoginWait
    \/ TlRecheckLogin
    \/ TlCheckMainPage
    \/ TlCheckWithoutLogin
    \/ TlScroll
    \/ TlExtract
    \/ TlPrompt
    \/ TlExitSave
    \/ TlExcept
    \/ TlFinal
    \/ TlKeyboardInterrupt

(***************************************************************************)
(* DetectPlatform (detected.py:20-46). A url is a sequence of pieces: a    *)
(* scheme, "www.", a site, and single characters: "a" a letter, "1" a      *)
(* digit, "-", "." and the path piece "/video/".                           *)
(***************************************************************************)
\* Most pieces after the site.
MaxTail == 4

UrlHeads == {<<>>, <<"http://">>, <<"https://">>, <<"https://", "www.">>,
             <<"www.", "https://">>}

UrlSites == {<<>>, <<"youtube.com/watch?v=">>, <<"youtu.be/">>, <<"twitch.tv/">>,
             <<"tiktok.com/@">>, <<"example.com/">>}

TailPieces == {"a", "1", "-", ".", "/video/"}

UrlTails == UNION {[1..k -> TailPieces] : k \in 0..MaxTail}

\* Character classes of the patterns: [\w-], [\w.] and \d.
WordOrHyphen == {"a", "1", "-"}
WordOrDot == {"a", "1", "."}
Digit == {"1"}

\* The patterns are matched from the start of the url (re.match), piece by
\* piece: each operator takes the position reached so far, 0 when the match
\* has failed, and gives the position after its part of the pattern.
At(u, i) == IF i >= 1 /\ i <= Len(u) THEN u[i] ELSE "$"

\* https?://
MatchScheme(u, i) == IF i # 0 /\ At(u, i) \in {"http://", "https://"} THEN i + 1 ELSE 0

\* (www\.)?
MatchOptWww(u, i) == IF i # 0 /\ At(u, i) = "www." THEN i + 1 ELSE i

\* a literal, or one of several
MatchLiteral(u, i, pieces) == IF i # 0 /\ At(u, i) \in pieces THEN i + 1 ELSE 0

\* The end of the longest run of characters of a class that starts at i.
RECURSIVE RunEnd(_, _, _)
RunEnd(u, i, class) == IF At(u, i) \in class THEN RunEnd(u, i + 1, class) ELSE i

\* [class]* : no character required.
MatchStar(u, i, class) == IF i # 0 THEN RunEnd(u, i, class) ELSE 0

\* [class]+ : greedy, at least one character.
MatchPlus(u, i, class) == IF i # 0 /\ At(u, i) \in class THEN RunEnd(u, i, class) ELSE 0

\* detected.py:35
youtube_pattern(u) ==
    MatchPlus(u, MatchLiteral(u, MatchOptWww(u, MatchScheme(u, 1)),
                              {"youtube.com/watch?v=", "youtu.be/"}),
              WordOrHyphen) # 0

\* detected.py:36
twitch_pattern(u) ==
    MatchPlus(u, MatchLiteral(u, MatchOptWww(u, MatchScheme(u, 1)), {"twitch.tv/"}),
              WordOrHyphen) # 0

\* detected.py:37
tiktok_pattern(u) ==
    MatchPlus(u,
              MatchLiteral(u,
                           MatchPlus(u, MatchLiteral(u, MatchOptWww(u, MatchScheme(u, 1)),
                                                     {"tiktok.com/@"}),
                                     WordOrDot),
                           {"/video/"}),
              Digit) # 0

\* detected.py:39-46
DetectPlatform(url) ==
    IF youtube_pattern(url) THEN "youtube"
    ELSE IF twitch_pattern(url) THEN "twitch"
    ELSE IF tiktok_pattern(url) THEN "tiktok"
    ELSE "INVALIDURL"

DetectInit ==
    /\ dpUrl = <<>>
    /\ dpResult = "unset"

\* One call of DetectPlatform.
DetectCall ==
    /\ dpResult = "unset"
    /\ \E h \in UrlHeads, m \in UrlSites, t \in UrlTails :
          LET url == h \o m \o t
          IN /\ dpUrl' = url
             /\ dpResult' = DetectPlatform(url)
    /\ UNCHANGED NotDetect

DetectNext == DetectCall

(***************************************************************************)
(* _create_csv (twitch.py:251-275) called twice on one path, with a buffer *)
(* A and then with a buffer B.                                             *)
(***************************************************************************)
\* Most rows of one buffer.
MaxCsvRows == 2

\* Comment texts of the chat; "null" is a text a viewer can type.
CsvTexts == {"c1", "c2", "null"}

\* The buffer the loop builds from comment texts (twitch.py:44, 76-81).
BufferOf(cs) ==
    [date_scraping |-> [i \in 1..Len(cs) |-> "now"],
     time_live |-> [i \in 1..Len(cs) |-> "t"],
     views |-> [i \in 1..Len(cs) |-> "v"],
     username |-> [i \in 1..Len(cs) |-> "u1"],
     comment |-> cs]

CsvBuffers == {BufferOf(cs) : cs \in UNION {[1..k -> CsvTexts] : k \in 0..MaxCsvRows}}

CsvInit ==
    /\ cvpc = 0
    /\ cvA = EmptyDb
    /\ cvB = EmptyDb
    /\ cvFile = NoFile

\* _create_csv(A, name_folder, name_file): the file does not exist yet.
CsvFirstCall ==
    /\ cvpc = 0
    /\ \E a \in CsvBuffers :
          /\ cvA' = a
          /\ cvFile' = _create_csv(cvFile, a)
    /\ cvpc' = 1
    /\ UNCHANGED cvB
    /\ UNCHANGED NotCsv

\* _create_csv(B, name_folder, name_file) on the same path.
CsvSecondCall ==
    /\ cvpc = 1
    /\ \E b \in CsvBuffers :
          /\ cvB' = b
          /\ cvFile' = _create_csv(cvFile, b)
    /\ cvpc' = 2
    /\ UNCHANGED cvA
    /\ UNCHANGED NotCsv

CsvNext ==
    \/ CsvFirstCall
    \/ CsvSecondCall

(***************************************************************************)
(* _save_to_json (tiktok.py:214-233) followed by a json.load of the file.  *)
(* A Python value is a record [t, s, items]: t its type, s the text of a   *)
(* scalar as a sequence of characters, items the elements of a list or the *)
(* members of a dict in insertion order. The file holds the JSON tokens    *)
(* json.dump emits; the white space of indent=4 separates tokens only.     *)
(***************************************************************************)
\* Most elements of one comment sub-list.
MaxJsonItems == 1

PyStr(chars) == [t |-> "str", s |-> chars, items |-> <<>>]
PyInt(digits) == [t |-> "int", s |-> digits, items |-> <<>>]
PyNone == [t |-> "None", s |-> <<>>, items |-> <<>>]
PyList(xs) == [t |-> "list", s |-> <<>>, items |-> xs]
PyMember(key, value) == [t |-> "member", s |-> <<key>>, items |-> <<value>>]
PyDict(members) == [t |-> "dict", s |-> <<>>, items |-> members]

Tok(kind, chars) == [k |-> kind, s |-> chars]
Punct(c) == Tok("punct", <<c>>)

RECURSIVE Flatten(_)
Flatten(seqs) == IF seqs = <<>> THEN <<>> ELSE Head(seqs) \o Flatten(Tail(seqs))

\* json.dump, ensure_ascii=True: a character written as it is.
EscapeNothing(c) == <<c>>

\* json.dump, ensure_ascii=True: the quote and the backslash get a
\* backslash, a character outside ASCII becomes \uXXXX.
EscapeChar(c) ==
    IF c \in {"\"", "\\"} THEN <<"\\", c>>
    ELSE IF c = "e-acute" THEN <<"\\", "u", "0", "0", "e", "9">>
    ELSE <<c>>

Escape(chars) == Flatten([i \in 1..Len(chars) |-> EscapeChar(chars[i])])

\* json.load on the text of a string: a backslash starts an escape.
RECURSIVE Unescape(_)
Unescape(chars) ==
    IF chars = <<>> THEN <<>>
    ELSE IF Head(chars) # "\\" THEN <<Head(chars)>> \o Unescape(Tail(chars))
    ELSE IF Len(chars) >= 6 /\ chars[2] = "u"
              /\ SubSeq(chars, 3, 6) = <<"0", "0", "e", "9">>
         THEN <<"e-acute">> \o Unescape(SubSeq(chars, 7, Len(chars)))
    ELSE IF Len(chars) >= 2 THEN <<chars[2]>> \o Unescape(SubSeq(chars, 3, Len(chars)))
    ELSE <<>>

\* tiktok.py:230, json.dump(data, f, indent=4): the tokens of a value.
RECURSIVE json_dump(_)
json_dump(v) ==
    LET Separated(parts) ==
            Flatten([i \in 1..Len(parts) |->
                        IF i = 1 THEN parts[i] ELSE <<Punct(",")>> \o parts[i]])
    IN  IF v.t = "str" THEN <<Tok("string", Escape(v.s))>>
        ELSE IF v.t = "int" THEN <<Tok("number", v.s)>>
        ELSE IF v.t = "None" THEN <<Tok("literal", <<"null">>)>>
        ELSE IF v.t = "list"
             THEN <<Punct("[")>>
                  \o Separated([i \in 1..Len(v.items) |-> json_dump(v.items[i])])
                  \o <<Punct("]")>>
        ELSE <<Punct("{")>>
             \o Separated([i \in 1..Len(v.items) |->
                             <<Tok("string", Escape(v.items[i].s)), Punct(":")>>
                             \o json_dump(v.items[i].items[1])])
             \o <<Punct("}")>>

\* json.load: the value that starts at token i and the position after it.
RECURSIVE ParseValue(_, _), ParseElements(_, _, _), ParseMembers(_, _, _)
ParseValue(toks, i) ==
    LET tk == toks[i]
    IN  IF tk.k = "string" THEN [v |-> PyStr(Unescape(tk.s)), n |-> i + 1]
        ELSE IF tk.k = "number" THEN [v |-> PyInt(tk.s), n |-> i + 1]
        ELSE IF tk.k = "literal" THEN [v |-> PyNone, n |-> i + 1]
        ELSE IF tk.s = <<"[">>
             THEN IF toks[i + 1] = Punct("]") THEN [v |-> PyList(<<>>), n |-> i + 2]
                  ELSE ParseElements(toks, i + 1, <<>>)
        ELSE IF toks[i + 1] = Punct("}") THEN [v |-> PyDict(<<>>), n |-> i + 2]
             ELSE ParseMembers(toks, i + 1, <<>>)

ParseElements(toks, i, acc) ==
    LET r == ParseValue(toks, i)
    IN  IF toks[r.n] = Punct(",") THEN ParseElements(toks, r.n + 1, Append(acc, r.v))
        ELSE [v |-> PyList(Append(acc, r.v)), n |-> r.n + 1]

ParseMembers(toks, i, acc) ==
    LET r == ParseValue(toks, i + 2)
        member == [t |-> "member", s |-> Unescape(toks[i].s), items |-> <<r.v>>]
    IN  IF toks[r.n] = Punct(",") THEN ParseMembers(toks, r.n + 1, Append(acc, member))
        ELSE [v |-> PyDict(Append(acc, member)), n |-> r.n + 1]

json_load(toks) == ParseValue(toks, 1).v

\* Texts of elements and attributes: plain, empty, with a quote, with a
\* backslash, with a character outside ASCII.
JsTexts == {<<>>, <<"a">>, <<"\"", "a">>, <<"\\", "a">>, <<"e-acute">>}

JsLists(S) == UNION {[1..k -> S] : k \in 0..MaxJsonItems}

\* [com, emoji_element] of youtube.py:479, with the src attributes.
JsEmojiPairs == {PyList(<<PyStr(<<"a">>), PyList(<<>>)>>),
                 PyList(<<PyStr(<<>>), PyList(<<PyStr(<<"a">>), PyNone>>)>>)}

\* The record of tiktok.py:193-202: href attributes (None when absent),
\* texts, and 0 where a comment has no reply text (tiktok.py:402); with the
\* emoji sub-list of a video record or without it.
JsonRecords ==
    {PyDict(<<PyMember("date_scraping", PyStr(<<"2024-07-30 03:18:56">>)),
              PyMember("url_post", PyStr(url)),
              PyMember("comment",
                  PyDict(<<PyMember("username", PyList(us)),
                           PyMember("n_like", PyList(ls)),
                           PyMember("n_response", PyList(rs)),
                           PyMember("date", PyList(ds))>> \o em))>>) :
        url \in JsTexts,
        us \in JsLists({PyStr(<<"a">>), PyNone}),
        ls \in JsLists({PyStr(<<"\\", "a">>)}),
        rs \in JsLists({PyStr(<<"0">>), PyInt(<<"0">>)}),
        ds \in JsLists({PyStr(<<"1">>)}),
        em \in {<<>>} \cup {<<PyMember("emoji", PyList(es))>> : es \in JsLists(JsEmojiPairs)}}

NoJsonFile == [exists |-> FALSE, text |-> <<>>]

JsonInit ==
    /\ jspc = "start"
    /\ jsData = PyDict(<<>>)
    /\ jsFile = NoJsonFile
    /\ jsLoaded = PyNone

\* _save_to_json(data, name_folder, name_file): the document is written, or
\* the failure of makedirs or open is printed and nothing is written.
JsonSave ==
    /\ jspc = "start"
    /\ \E data \in JsonRecords, ok \in BOOLEAN :
          /\ jsData' = data
          /\ jsFile' = IF ok THEN [exists |-> TRUE, text |-> json_dump(data)]
                       ELSE jsFile
    /\ jspc' = "saved"
    /\ UNCHANGED jsLoaded
    /\ UNCHANGED NotJson

\* json.load of the file that was written.
JsonLoad ==
    /\ jspc = "saved"
    /\ jsFile.exists
    /\ jsLoaded' = json_load(jsFile.text)
    /\ jspc' = "loaded"
    /\ UNCHANGED <<jsData, jsFile>>
    /\ UNCHANGED NotJson

JsonNext ==
    \/ JsonSave
    \/ JsonLoad

(***************************************************************************)
(* The waits of ExtractDataPageTiktok (tiktok.py:44-46, 51, 84-101): the   *)
(* statements of the loop that read or write the four wait locals. Time is *)
(* counted in units of 0.005 s, so that two waits can be closer than the   *)
(* tolerance without being equal.                                          *)
(***************************************************************************)
\* Hundredths of a second in units.
Centi(h) == 2 * h

\* tiktok.py:46: tolerance = 0.01
tolerance == Centi(1)

\* tiktok.py:44-45: previous_wait_time = None
None == 0 - 1

Abs(x) == IF x < 0 THEN 0 - x ELSE x

\* Values of random.uniform(0.8, 1) and random.uniform(0.8, 2).
ScrollFirst == {Centi(80), Centi(80) + 1, Centi(100)}
ScrollAgain == {Centi(80), Centi(80) + 1, Centi(81), Centi(200)}

\* Values of random.uniform(1.5, 2) and random.uniform(2, 3).
TickFirst == {Centi(150), Centi(150) + 1, Centi(200)}
TickAgain == {Centi(200), Centi(200) + 1, Centi(201), Centi(300)}

\* The test of the re-roll loop left out.
NeverTooClose(new, previous) == FALSE

\* tiktok.py:86, 95: previous is not None and abs(new - previous) < tolerance
TooClose(new, previous) == previous # None /\ Abs(new - previous) < tolerance

\* The last two of the waits slept, after one more.
Slept(sleeps, t) == IF sleeps = <<>> THEN <<t>> ELSE <<sleeps[Len(sleeps)], t>>

WaitsInit ==
    /\ wtpc = "scroll_draw"
    /\ wtstep = 0
    /\ new_scroll_wait_time = None
    /\ previous_scroll_wait_time = None
    /\ new_wait_time = None
    /\ previous_wait_time = None
    /\ wtScrollSleeps = <<>>
    /\ wtTickSleeps = <<>>
    /\ wtRerolled = FALSE

\* tiktok.py:85: new_scroll_wait_time = random.uniform(0.8, 1)
WtDrawScroll ==
    /\ wtpc = "scroll_draw"
    /\ new_scroll_wait_time' \in ScrollFirst
    /\ wtpc' = "scroll_test"
    /\ wtRerolled' = FALSE
    /\ UNCHANGED <<wtstep, previous_scroll_wait_time, new_wait_time,
                   previous_wait_time, wtScrollSleeps, wtTickSleeps>>
    /\ UNCHANGED NotWaits

\* tiktok.py:86-87: while the new wait is too close to the previous one,
\* draw again from random.uniform(0.8, 2).
WtTestScroll ==
    /\ wtpc = "scroll_test"
    /\ IF TooClose(new_scroll_wait_time, previous_scroll_wait_time)
       THEN /\ new_scroll_wait_time' \in ScrollAgain
            /\ wtRerolled' = TRUE
            /\ UNCHANGED wtpc
       ELSE /\ wtpc' = "scroll_sleep"
            /\ UNCHANGED <<new_scroll_wait_time, wtRerolled>>
    /\ UNCHANGED <<wtstep, previous_scroll_wait_time, new_wait_time,
                   previous_wait_time, wtScrollSleeps, wtTickSleeps>>
    /\ UNCHANGED NotWaits

\* tiktok.py:89-91: the scroll, time.sleep(new_scroll_wait_time) and
\* previous_scroll_wait_time = new_scroll_wait_time; after the third step
\* of 'for _ in range(3)' the between-tick wait follows.
WtSleepScroll ==
    /\ wtpc = "scroll_sleep"
    /\ wtScrollSleeps' = Slept(wtScrollSleeps, new_scroll_wait_time)
    /\ previous_scroll_wait_time' = new_scroll_wait_time
    /\ wtstep' = (wtstep + 1) % ScrollSteps
    /\ wtpc' = IF wtstep + 1 = ScrollSteps THEN "tick_draw" ELSE "scroll_draw"
    /\ UNCHANGED <<new_scroll_wait_time, new_wait_time, previous_wait_time,
                   wtTickSleeps, wtRerolled>>
    /\ UNCHANGED NotWaits

\* tiktok.py:94: new_wait_time = random.uniform(1.5, 2)
WtDrawTick ==
    /\ wtpc = "tick_draw"
    /\ new_wait_time' \in TickFirst
    /\ wtpc' = "tick_test"
    /\ wtRerolled' = FALSE
    /\ UNCHANGED <<wtstep, new_scroll_wait_time, previous_scroll_wait_time,
                   previous_wait_time, wtScrollSleeps, wtTickSleeps>>
    /\ UNCHANGED NotWaits

\* tiktok.py:95-96: while the new wait is too close to the previous one,
\* draw again from random.uniform(2, 3).
WtTestTick ==
    /\ wtpc = "tick_test"
    /\ IF TooClose(new_wait_time, previous_wait_time)
       THEN /\ new_wait_time' \in TickAgain
            /\ wtRerolled' = TRUE
            /\ UNCHANGED wtpc
       ELSE /\ wtpc' = "tick_sleep"
            /\ UNCHANGED <<new_wait_time, wtRerolled>>
    /\ UNCHANGED <<wtstep, new_scroll_wait_time, previous_scroll_wait_time,
                   previous_wait_time, wtScrollSleeps, wtTickSleeps>>
    /\ UNCHANGED NotWaits

\* tiktok.py:99-101: time.sleep(new_wait_time) and previous_wait_time =
\* new_wait_time; the snapshot follows and then the next outer iteration.
WtSleepTick ==
    /\ wtpc = "tick_sleep"
    /\ wtTickSleeps' = Slept(wtTickSleeps, new_wait_time)
    /\ previous_wait_time' = new_wait_time
    /\ wtpc' = "scroll_draw"
    /\ UNCHANGED <<wtstep, new_scroll_wait_time, previous_scroll_wait_time,
                   new_wait_time, wtScrollSleeps, wtRerolled>>
    /\ UNCHANGED NotWaits

WaitsNext ==
    \/ WtDrawScroll
    \/ WtTestScroll
    \/ WtSleepScroll
    \/ WtDrawTick
    \/ WtTestTick
    \/ WtSleepTick

(***************************************************************************)
(* ScrollDownPageYouTube (youtube.py:44-70). The page is the input: the    *)
(* height each execute_script(script) measures, which can grow, stay or    *)
(* shrink between two measurements.                                        *)
(***************************************************************************)
\* Heights a page can have.
MaxHeight == 3

\* youtube.py:47: max_attempts = 3
max_attempts == 3

Heights == 1..MaxHeight

\* The test of line 62 taken as "has not grown".
HeightNotGrown(init, last) == last <= init

\* youtube.py:62: if page_init_height == page_last_height
HeightUnchanged(init, last) == init = last

\* Line 63 with the increment left out.
SameAttempt(n) == n

\* youtube.py:63: current_attempt += 1
NextAttempt(n) == n + 1

\* Line 69 with the reset left out.
KeepAttempt(n) == n

\* youtube.py:69: current_attempt = 0
ResetAttempt(n) == 0

\* The last five of the heights measured, after one more.
Measured(hs, h) ==
    IF Len(hs) < max_attempts + 2 THEN Append(hs, h) ELSE Append(Tail(hs), h)

ScrollInit ==
    /\ sdpc = "start"
    /\ page_init_height = 0
    /\ page_last_height = 0
    /\ current_attempt = 0
    /\ sdMeasured = <<>>
    /\ sdChanged = FALSE
    /\ sdParity = 0

\* youtube.py:44-48: the initial measurement.
SdMeasureInitial ==
    /\ sdpc = "start"
    /\ \E h \in Heights :
          /\ page_init_height' = h
          /\ sdMeasured' = <<h>>
    /\ current_attempt' = 0
    /\ sdpc' = "loop"
    /\ UNCHANGED <<page_last_height, sdChanged, sdParity>>
    /\ UNCHANGED NotScroll

\* youtube.py:49-69, one attempt: the scrolls, the measurement and the
\* comparison with the baseline.
SdAttempt ==
    /\ sdpc = "loop"
    /\ current_attempt < max_attempts
    /\ \E h \in Heights :
          /\ page_last_height' = h
          /\ sdMeasured' = Measured(sdMeasured, h)
          /\ sdChanged' = (h # sdMeasured[Len(sdMeasured)])
          /\ IF HeightUnchanged(page_init_height, h)
             THEN /\ current_attempt' = NextAttempt(current_attempt)
                  /\ UNCHANGED page_init_height
             ELSE /\ page_init_height' = h
                  /\ current_attempt' = ResetAttempt(current_attempt)
    /\ sdParity' = 1 - sdParity
    /\ UNCHANGED sdpc
    /\ UNCHANGED NotScroll

\* youtube.py:49, 70: the loop condition fails and the function returns.
SdReturn ==
    /\ sdpc = "loop"
    /\ ~(current_attempt < max_attempts)
    /\ sdpc' = "returned"
    /\ UNCHANGED <<page_init_height, page_last_height, current_attempt,
                   sdMeasured, sdChanged, sdParity>>
    /\ UNCHANGED NotScroll

\* An execute_script call of lines 44-65 raises: nothing in the function
\* catches it.
SdDriverException ==
    /\ sdpc \in {"start", "loop"}
    /\ sdpc = "loop" => current_attempt < max_attempts
    /\ sdpc' = "raised"
    /\ UNCHANGED <<page_init_height, page_last_height, current_attempt,
                   sdMeasured, sdChanged, sdParity>>
    /\ UNCHANGED NotScroll

ScrollNext ==
    \/ SdMeasureInitial
    \/ SdAttempt
    \/ SdReturn
    \/ SdDriverException

Init ==
    /\ TwitchInit /\ YtInit /\ TkInit /\ TlInit /\ CsvInit /\ DetectInit
    /\ JsonInit /\ WaitsInit /\ ScrollInit

SpecTwitch == Init /\ [][TwitchNext]_vars

SpecYouTube == Init /\ [][YouTubeNext]_vars

SpecTiktokSnapshot == Init /\ [][TiktokSnapshotNext]_vars

SpecTiktokLoop == Init /\ [][TiktokLoopNext]_vars

SpecCsv == Init /\ [][CsvNext]_vars

SpecDetect == Init /\ [][DetectNext]_vars

SpecJson == Init /\ [][JsonNext]_vars

SpecTiktokWaits == Init /\ [][WaitsNext]_vars

SpecScroll == Init /\ [][ScrollNext]_vars

\* The function is sequential code whose sleeps are finite: a statement that
\* can run does run.
SpecScrollFair ==
    SpecScroll /\ WF_vars(SdMeasureInitial \/ SdAttempt \/ SdReturn)

(***************************************************************************)
(* Properties of ExtractDataPageTwitch.                                    *)
(***************************************************************************)
Occurrences(rows, r) == Cardinality({i \in 1..Len(rows) : rows[i] = r})

\* C1: on every exit path the rows left in the buffer db have been written
\* to the CSV exactly once when the function returns (no write having failed).
C1_BufferWrittenExactlyOnce ==
    (pc = "done" /\ ~writeFailed) =>
        \A i \in 1..DbLen(db) : Occurrences(csv.rows, RowOf(db, i)) = 1

\* C2: a KeyboardInterrupt or another exception raised in the loop body
\* reaches the flush: _create_csv is called with the buffer and the function
\* returns normally (no write having failed).
C2_InterruptReachesFlush ==
    (cause \in {"KeyboardInterrupt", "Exception"} /\ ~writeFailed) =>
        (pc = "done" /\ lastStep = "handler_write")

\* C3: no two rows of the CSV written by one run hold the same comment text.
C3_NoDuplicateCommentInCsv ==
    \A i, j \in 1..Len(csv.rows) :
        i # j => csv.rows[i].comment # csv.rows[j].comment

C5_BufferBoundedAtTick == pc = "loop" => DbLen(db) <= FlushThreshold

\* C6: once _check_offline has returned True the loop is in its offline
\* branch or has ended: no extraction, refresh or further tick follows.
C6_OfflineStops == offlineSeen => pc \in {"offline", "done"}

\* C7: a _create_csv that raises is never propagated to the caller of
\* ExtractDataPageTwitch.
C7_WriteFailureNotPropagated == writeFailed => pc # "raised"

\* C11: a missing viewer-count or live-time element never ends the session
\* or aborts the tick: the loop never ends, by return or by raising, on a
\* NoSuchElementException met inside _extract_views or _extract_time_live.
C11_MissingElementRecovered ==
    pc \in {"done", "raised"} => origin # "missing_element"

\* Rows appended to the buffer so far in the session.
RECURSIVE SumOver(_, _)
SumOver(f, S) ==
    IF S = {} THEN 0
    ELSE LET x == CHOOSE y \in S : TRUE IN f[x] + SumOver(f, S \ {x})

AppendedTotal == SumOver(appended, Comments)

CeilDiv(n, d) == (n + d - 1) \div d

C18_BufferEmptyAfterFinalFlush ==
    (pc = "done" /\ lastStep = "handler_write") => DbLen(db) = 0

\* C19: _create_csv called with buffer A and then with buffer B on the same
\* path creates the file at the first call and leaves a file whose data rows
\* are exactly the rows of A followed by the rows of B.
C19_RowsOfAThenB ==
    /\ cvpc >= 1 => cvFile.exists
    /\ cvpc = 1 => cvFile.rows = DataFrame(cvA)
    /\ cvpc = 2 => cvFile.rows = DataFrame(cvA) \o DataFrame(cvB)

\* The locals usernames and comments hold one extraction (both were assigned
\* by the same tick, lines 68-69) and it is malformed: the lists differ in
\* length or one holds more than the size guard allows.
MalformedExtraction ==
    /\ {"usernames", "comments"} \subseteq bound
    /\ pc # "comments"
    /\ ~WellFormed(usernames, comments)

\* C23: rows taken from an extraction whose lists differ in length, or that
\* holds more than 140 entries, are never appended to the buffer (and so
\* never reach the CSV, which is written from the buffer) on any path of the
\* loop: no step taken while the locals hold such an extraction adds a row.
C23_MalformedNeverAppended ==
    [][MalformedExtraction => DbLen(db') <= DbLen(db)]_vars

\* C24: every tick whose extraction is malformed (unequal lengths, or more
\* than 140 entries) runs the DOM-cleanup script in that tick, and the loop
\* goes on with the next tick.
C24_MalformedRunsCleanup ==
    (lastStep \in {"admit", "cleanup", "skip"} /\ ~WellFormed(usernames, comments))
        => (lastStep = "cleanup" /\ pc = "loop")

\* C34: in a tick where the channel is not offline and the chat container
\* is absent, the loop only refreshes the page: neither the check of the
\* offline banner nor the refresh changes the buffer, the dedup set or the
\* CSV, no write is made, and after the refresh the loop is at the start of
\* the next tick.
C34_AbsentChatOnlyRefreshes ==
    /\ [](lastStep = "refresh" => (pc = "loop" /\ cause = "none"))
    /\ [][(pc = "loop" /\ pc' = "presence") =>
             (db' = db /\ seen_comments' = seen_comments /\ csv' = csv
              /\ writes' = writes)]_vars
    /\ [][(pc = "presence" /\ lastStep = "check_offline" /\ lastStep' = "refresh") =>
             (db' = db /\ seen_comments' = seen_comments /\ csv' = csv
              /\ writes' = writes)]_vars

\* A refresh-only tick of a channel never seen offline, taken with a row in
\* the buffer and its comment in the dedup set.
C34_Witness ==
    /\ lastStep = "refresh"
    /\ pc = "loop"
    /\ ~offlineSeen
    /\ DbLen(db) > 0
    /\ seen_comments # {}

\* The rest of a tick whose extraction is malformed: lines 71-102 are still
\* to run on the lists assigned by this tick.
DiscardedTick == MalformedExtraction /\ pc \in {"now", "filter"}

\* C35: a tick whose extraction has lists of unequal length, or more than
\* 140 entries, leaves the buffer and the dedup set unchanged, so that its
\* comments are not registered as seen: no step of such a tick changes db
\* or seen_comments.  (The write the claim also excludes is left out here:
\* a handler writes the buffer whatever the extraction was.)
C35_DiscardedTickLeavesNoTrace ==
    [][DiscardedTick => (db' = db /\ seen_comments' = seen_comments)]_vars

\* The comment texts of the rows of the CSV.
WrittenComments == {csv.rows[i].comment : i \in 1..Len(csv.rows)}

\* C36: when the function has returned and no write failed, every comment
\* admitted to the dedup set during the session is in a row of the CSV:
\* whatever interrupted a tick, the loop is not left with admitted rows
\* unwritten.
C36_AdmittedIsWrittenAtReturn ==
    (pc = "done" /\ ~writeFailed) => seen_comments \subseteq WrittenComments

\* C37: in every reachable state of the loop the five columns of db have
\* the same length, so that every row of the buffer handed to _create_csv
\* is complete.
C37_ColumnsSameLength ==
    \A f \in DOMAIN db : Len(db[f]) = Len(db.date_scraping)

(***************************************************************************)
(* Properties of the field extractors and of ExtractDataPageYouTube.       *)
(***************************************************************************)
\* C8: a field extractor never raises to its caller: whatever its lookups
\* do, its except-handler runs to completion and it returns a value.
C8_ExtractorNeverRaises == ~ytlast.raised

\* C9: ExtractDataPageYouTube is never aborted by one field: it returns a
\* record with the full schema in which every field whose lookup failed
\* holds its sentinel.
C9_AssemblyNeverAborts ==
    /\ ytstatus # "raised"
    /\ ytstatus = "done" =>
          /\ DOMAIN ytdata = YtSchema
          /\ \A f \in ytfailed : YtIsSentinel(f, ytdata[f])

\* The primary locator matched nothing: no element (find_element), or
\* fewer than the three elements the index needs (find_elements(...)[2]).
NoValue(o) == o \in {"missing", "few"}

\* C38: for the view count and the upload date the secondary locator is
\* tried whenever the primary locator yields no value (its text is returned
\* when it matches), and the sentinel 'None' is returned only when both
\* locators fail.
C38_SecondaryLocatorTried ==
    ytlast.fn \in {"views", "upload"} =>
        /\ (NoValue(ytlookups.o1) /\ ytlookups.o2 = "found") =>
               (~ytlast.raised /\ ytdata[ytlast.fn] = "text2")
        /\ (~ytlast.raised /\ ytdata[ytlast.fn] = "None") =>
               (ytlookups.o1 # "found" /\ ytlookups.o2 # "found")

\* The pairs of a list that are not empty, in their order.
NonEmptyPairs(els) == SelectSeq(els, LAMBDA p : ~IsEmptyPair(p))

\* C39: _extract_comments_emojis returns the pairs it found in DOM order
\* with every pair whose text and emoji list are both empty removed and no
\* other pair removed, wherever the empty pairs stand.
C39_EmptyPairsRemoved ==
    (ytlast.fn = "emoji" /\ ytlookups.o1 = "found") =>
        (~ytlast.raised /\ ytdata["emoji"] = NonEmptyPairs(ytlookups.items))

\* C39 witness: a page whose pairs are all empty, two of them in a row; a
\* page with an empty pair between kept ones needs three pairs.
C39_Witness ==
    /\ ytlast.fn = "emoji"
    /\ Len(ytlookups.items) = YtMaxItems
    /\ \A i \in 1..Len(ytlookups.items) : IsEmptyPair(ytlookups.items[i])
    /\ ytdata["emoji"] = <<>>

(***************************************************************************)
(* Properties of extract_all_data.                                         *)
(***************************************************************************)
\* What the record holds for the field fed by one task: the task's own
\* result, or the default when the task raised.
TkExpected(key, default) ==
    IF tkTask[key].raised THEN default ELSE tkTask[key].value

\* C10: extract_all_data never raises and returns a record with url_post and
\* the four comment sub-lists, in which the field of a task that failed
\* holds its default and every other field what its own extractor returned.
C10_SnapshotAssembled ==
    /\ tkpc # "raised"
    /\ tkpc = "returned" =>
          /\ DOMAIN tkData = {"date_scraping", "url_post", "comment"}
          /\ DOMAIN tkData.comment = {"username", "n_like", "n_response", "date"}
          /\ tkData.url_post = TkExpected("url_post", "")
          /\ tkData.comment.username = TkExpected("usernames", <<>>)
          /\ tkData.comment.n_like = TkExpected("likes", <<>>)
          /\ tkData.comment.n_response = TkExpected("responses", <<>>)
          /\ tkData.comment.date = TkExpected("dates", <<>>)

\* C10 witness: the record was returned although exactly one task, the
\* likes extractor, had raised; the other fields hold found values.
C10_Witness ==
    /\ tkpc = "returned"
    /\ {k \in TkKeys : tkTask[k].raised} = {"likes"}
    /\ tkData.comment.n_like = <<>>
    /\ tkData.url_post = "url"
    /\ tkData.comment.username # <<>>
    /\ tkData.comment.date # <<>>

\* The record the six tasks determine, whatever the order they complete in.
TkRecordOf(task) ==
    [date_scraping |-> "2024-07-30 03:18:56",
     url_post |-> IF task["url_post"].raised THEN "" ELSE task["url_post"].value,
     comment |-> [username |-> IF task["usernames"].raised THEN <<>>
                               ELSE task["usernames"].value,
                  n_like |-> IF task["likes"].raised THEN <<>> ELSE task["likes"].value,
                  n_response |-> IF task["responses"].raised THEN <<>>
                                 ELSE task["responses"].value,
                  date |-> IF task["dates"].raised THEN <<>> ELSE task["dates"].value]]

\* C12: the record assembled by extract_all_data is the same for every
\* completion order of the six tasks: every result collected is stored under
\* the key of its own task, the record is the one the tasks determine, and
\* its keys are in schema order.
C12_CompletionOrderIrrelevant ==
    /\ \A k \in DOMAIN tkResults :
          ~tkTask[k].raised /\ tkResults[k] = tkTask[k].value
    /\ tkpc = "returned" =>
          /\ tkData = TkRecordOf(tkTask)
          /\ tkKeyOrder.record = <<"date_scraping", "url_post", "comment">>
          /\ tkKeyOrder.comment = <<"username", "n_like", "n_response", "date">>

\* C12 witness: the record was returned after the future submitted last,
\* the responses extractor, completed first, with tasks whose results
\* differ from one another.
C12_Witness ==
    /\ tkpc = "returned"
    /\ tkFirst = "responses"
    /\ ~tkTask["url_post"].raised
    /\ tkData.comment.n_response = <<"0">>
    /\ tkData.comment.username = <<"x">>
    /\ tkData.comment.n_like = <<>>
    /\ ~tkTask["likes"].raised

(***************************************************************************)
(* Properties of ExtractDataPageTiktok.                                    *)
(***************************************************************************)
TlEnded == tlpc \in {"returned", "raised"}

\* C13: each run of ExtractDataPageTiktok performs exactly one _save_to_json
\* call before it ends, on every exit path ('exit', exception, interrupt).
C13_FinalFlushExactlyOnce == TlEnded => Len(tlsaves) = 1

C15_WritesOnlyDestination ==
    /\ \A i \in 1..Len(tlsaves) : tlsaves[i].path = Destination
    /\ \A p \in TlPaths \ {Destination} : tlfiles[p] = NoJson

\* C16: the gate detectors never raise: no lookup failure inside
\* _check_captcha_exists, _check_login, _check_main_page or
\* _check_without_login leaves the detector as an exception and ends the
\* loop.
C16_GateNeverRaises == tlorigin # "gate"

\* A snapshot is complete: url_post and the four comment sub-lists are
\* non-empty.
Complete(d) ==
    /\ d.url_post # ""
    /\ d.comment.username # <<>>
    /\ d.comment.n_like # <<>>
    /\ d.comment.n_response # <<>>
    /\ d.comment.date # <<>>

\* A snapshot has just been assembled by this step.
SnapshotTaken == tlpc = "extract" /\ tlticks' = tlticks + 1

\* C25: after each snapshot the continue/stop prompt is shown if and only
\* if the snapshot is complete; for an incomplete snapshot the loop goes on
\* with the next tick without prompting.
C25_PromptIffComplete ==
    [][SnapshotTaken =>
          /\ Complete(tldata') <=> tlpc' = "prompt"
          /\ ~Complete(tldata') => tlpc' = "captcha"]_vars

\* The line says exit, whatever its case and the white space around it.
SaysExit(raw) ==
    \E i \in 1..Len(raw) :
        /\ i + 3 <= Len(raw)
        /\ \A k \in 1..Len(raw) : (k < i \/ k > i + 3) => raw[k] = " "
        /\ raw[i] \in {"e", "E"} /\ raw[i + 1] \in {"x", "X"}
        /\ raw[i + 2] \in {"i", "I"} /\ raw[i + 3] \in {"t", "T"}

\* C26: at the prompt, the input 'exit' (trimmed, in any case) ends the loop
\* with no further tick, and _save_to_json is called with the snapshot; any
\* other input, 'c' or anything else, starts the next scroll-and-snapshot
\* iteration and calls no save.
C26_ExitSavesOthersContinue ==
    /\ [](SaysExit(tlraw) =>
            /\ tlpc \in {"exit_save", "final", "returned", "raised"}
            /\ TlEnded => \E i \in 1..Len(tlsaves) :
                              /\ tlsaves[i].path = Destination
                              /\ tlsaves[i].data = tlassembled)
    /\ [][SaysExit(tlraw) => tlticks' = tlticks]_vars
    /\ [][(tlpc = "prompt" /\ tlraw' # NoAnswer /\ ~SaysExit(tlraw')) =>
             /\ tlpc' = "captcha" /\ tlstep' = 0
             /\ tlsaves' = tlsaves /\ tlfiles' = tlfiles]_vars

\* C26 witness: ' ExIT ' was typed at the prompt of the second tick, whose
\* tick before was continued; the run has ended and the snapshot was saved.
C26_Witness ==
    /\ tlpc = "returned"
    /\ tlraw = <<" ", "E", "x", "I", "T", " ">>
    /\ tlticks = 2
    /\ tlfiles[Destination] = [exists |-> TRUE, content |-> tlassembled]

\* C27: the document at name_folder/name_file after the function has ended
\* is the most recently assembled snapshot, complete or partial, and the
\* empty document {} if none was assembled: the last save of the run is the
\* one to the destination, it is given that record, and when the write
\* succeeds the file holds exactly that record, not the one of a tick before.
C27_DestinationHoldsLastSnapshot ==
    TlEnded =>
        /\ tlsaves # <<>>
        /\ LET last == tlsaves[Len(tlsaves)]
               latest == IF tlticks = 0 THEN EmptyDict ELSE tlassembled IN
              /\ last.path = Destination
              /\ last.data = latest
              /\ last.ok => tlfiles[Destination] = [exists |-> TRUE, content |-> latest]
              /\ ~last.ok => tlfiles[Destination] = NoJson

\* C27 witness: two ticks assembled different snapshots, the second one a
\* partial one; the run was interrupted and the destination holds the second.
C27_Witness ==
    /\ tlpc = "raised"
    /\ tlexc = "KeyboardInterrupt"
    /\ tlticks = 2
    /\ tlprev # tlassembled
    /\ ~Complete(tlassembled)
    /\ tlfiles[Destination] = [exists |-> TRUE, content |-> tlassembled]

\* C28: in each inner step a detected captcha blocks the step: a detection
\* is followed by one acknowledgement wait and the wait by one re-check,
\* until a check finds the marker absent; no command is issued while the
\* last check of the step found the marker, and the scroll of the step is
\* executed only after a captcha check of that step found it absent.
C28_CaptchaBlocksStep ==
    /\ [](tlpc = "captcha_wait" => tlcaptcha = "found")
    /\ [](tlcaptcha = "found" => tlcmds = <<>>)
    /\ [](tlcmds # <<>> => tlcaptcha = "missing")
    /\ [][(tlpc = "captcha" /\ tlexc' = "none") =>
             /\ tlcaptcha' = "found" <=> tlpc' = "captcha_wait"
             /\ tlcaptcha' = "missing" <=> tlpc' = "login"]_vars
    /\ [][(tlpc = "captcha_wait" /\ tlexc' = "none") => tlpc' = "captcha"]_vars

\* C28 witness: a captcha was detected and acknowledged in this step, a
\* later check found it absent, and the scroll of the step was executed.
C28_Witness ==
    /\ "captcha" \in tlcleared
    /\ tlcaptcha = "missing"
    /\ tlcmds = <<"scrollBy", "sleep(wait)">>

\* Position i of the step's history holds the commands cs, in that order.
IssuedAt(i, cs) ==
    /\ i + Len(cs) - 1 <= Len(tlcmds)
    /\ SubSeq(tlcmds, i, i + Len(cs) - 1) = cs

\* C29: after a login gate has cleared, a main-page view detected at the
\* check that follows is answered by go-back, a settle delay and a scroll to
\* the bottom, in that order and before the scroll of the step; while the
\* login marker is still present no go-back and no scroll is issued.
C29_LoginGateThenMainPage ==
    /\ tllogin = "found" => tlcmds = <<>>
    /\ tlpc \in {"login_wait", "login_recheck"} => tlcmds = <<>>
    /\ \A i \in 1..Len(tlcmds) :
          tlcmds[i] = "login_main_page" =>
              /\ "login" \in tlcleared
              /\ IssuedAt(i + 1, <<"back", "sleep(10)", "scrollTo">>)
              /\ \A k \in 1..(i + 3) : tlcmds[k] # "scrollBy"

\* C29 witness: the login gate was met and cleared, the main-page view was
\* detected after it, and the step has gone on to its scroll.
C29_Witness ==
    /\ "login" \in tlcleared
    /\ tllogin = "missing"
    /\ tlcmds = AfterLoginCommands \o <<"scrollBy", "sleep(wait)">>

\* C30: no two consecutive waits of the same kind are within 0.01 s of each
\* other: each scroll wait slept differs from the scroll wait slept before
\* it by at least the tolerance, also when the two belong to different outer
\* iterations, and so does each between-tick wait from the one before it.
C30_ConsecutiveWaitsDiffer ==
    /\ Len(wtScrollSleeps) = 2 =>
          Abs(wtScrollSleeps[2] - wtScrollSleeps[1]) >= Centi(1)
    /\ Len(wtTickSleeps) = 2 =>
          Abs(wtTickSleeps[2] - wtTickSleeps[1]) >= Centi(1)

\* C30 witness: the first scroll wait of a later outer iteration was drawn
\* within the tolerance of the last one of the iteration before, was drawn
\* again and slept at exactly 0.01 s from it.
C30_Witness ==
    /\ wtpc = "scroll_draw"
    /\ wtstep = 1
    /\ wtTickSleeps # <<>>
    /\ wtRerolled
    /\ wtScrollSleeps = <<Centi(80), Centi(81)>>

(***************************************************************************)
(* Properties of DetectPlatform.                                           *)
(***************************************************************************)
\* The pieces from position 'from' on are a non-empty run of the class.
IsRun(w, from, class) ==
    /\ from <= Len(w)
    /\ \A k \in from..Len(w) : w[k] \in class

\* A scheme, an optional "www." and one of the sites, the site at position p.
StartsWithSite(w, p, sites) ==
    /\ p <= Len(w)
    /\ w[1] \in {"http://", "https://"}
    /\ p = 2 \/ (p = 3 /\ w[2] = "www.")
    /\ w[p] \in sites

\* The three url shapes of the claim, as predicates of a whole url.
VideoWatchShape(w) ==
    \E p \in 2..3 :
        /\ StartsWithSite(w, p, {"youtube.com/watch?v=", "youtu.be/"})
        /\ IsRun(w, p + 1, {"a", "1", "-"})

ChannelShape(w) ==
    \E p \in 2..3 :
        /\ StartsWithSite(w, p, {"twitch.tv/"})
        /\ IsRun(w, p + 1, {"a", "1", "-"})

ShortClipShape(w) ==
    \E p \in 2..3 :
        /\ StartsWithSite(w, p, {"tiktok.com/@"})
        /\ \E v \in (p + 2)..(Len(w) - 1) :
              /\ w[v] = "/video/"
              /\ IsRun(SubSeq(w, 1, v - 1), p + 1, {"a", "1", "."})
              /\ IsRun(w, v + 1, {"1"})

\* A url matches a shape when it starts with a url of that shape.
Matches(u, Shape(_)) == \E n \in 1..Len(u) : Shape(SubSeq(u, 1, n))

\* C20: DetectPlatform returns 'youtube' for every url matching the
\* video-watch shape, 'twitch' for every url matching the channel shape,
\* 'tiktok' for every url matching the short-clip shape and 'INVALIDURL'
\* for every other string.
C20_ClassifiedByShape ==
    dpResult # "unset" =>
        /\ Matches(dpUrl, VideoWatchShape) => dpResult = "youtube"
        /\ Matches(dpUrl, ChannelShape) => dpResult = "twitch"
        /\ Matches(dpUrl, ShortClipShape) => dpResult = "tiktok"
        /\ (~Matches(dpUrl, VideoWatchShape) /\ ~Matches(dpUrl, ChannelShape)
              /\ ~Matches(dpUrl, ShortClipShape)) => dpResult = "INVALIDURL"

\* C20 witness: https://www.tiktok.com/@a./video/1 has been classified as
\* tiktok.
C20_Witness ==
    /\ dpUrl = <<"https://", "www.", "tiktok.com/@", "a", ".", "/video/", "1">>
    /\ dpResult = "tiktok"


(***************************************************************************)
(* Properties of ScrollDownPageYouTube.                                    *)
(***************************************************************************)
\* The last n attempts each measured the height measured just before them.
UnchangedAttempts(n) ==
    /\ Len(sdMeasured) >= n + 1
    /\ \A i \in (Len(sdMeasured) - n + 1)..Len(sdMeasured) :
          sdMeasured[i] = sdMeasured[i - 1]

\* C31: the scroll stops exactly when 3 consecutive attempts have each
\* measured the height measured by the attempt before (the initial
\* measurement for the first): the counter stays within 0..3, it is 3
\* exactly in that case, the function returns only then, and no attempt is
\* made once it is 3.
C31_StopsAfterThreeUnchanged ==
    /\ [](current_attempt \in 0..3)
    /\ [](sdpc \in {"loop", "returned"} => (current_attempt = 3 <=> UnchangedAttempts(3)))
    /\ [](sdpc = "returned" => UnchangedAttempts(3))
    /\ [][UnchangedAttempts(3) =>
             (sdParity' = sdParity /\ sdpc' \in {"returned", sdpc})]_vars

\* C31 witness: the height grew once, then three attempts measured it
\* unchanged and the function returned.
C31_Witness ==
    /\ sdpc = "returned"
    /\ sdChanged = FALSE
    /\ sdMeasured = <<1, 2, 2, 2, 2>>
    /\ page_init_height = 2

\* An attempt has just measured a height above the one measured before it.
Grew ==
    /\ sdpc = "loop"
    /\ sdParity' # sdParity
    /\ sdMeasured'[Len(sdMeasured')] > sdMeasured[Len(sdMeasured)]

\* Attempts at the end of the history that each measured the height measured
\* just before them.
RECURSIVE TrailingUnchanged(_)
TrailingUnchanged(hs) ==
    IF Len(hs) < 2 \/ hs[Len(hs)] # hs[Len(hs) - 1] THEN 0
    ELSE 1 + TrailingUnchanged(SubSeq(hs, 1, Len(hs) - 1))

\* C32: any growth of the measured height between two consecutive attempts
\* resets the counter to 0 and makes the new height the baseline of the next
\* comparison, so that the counter counts the unchanged attempts since then
\* and 3 further ones are needed before the scroll gives up.
C32_GrowthResetsCounter ==
    /\ [][Grew => (current_attempt' = 0
                   /\ page_init_height' = sdMeasured'[Len(sdMeasured')])]_vars
    /\ [](sdpc = "loop" => (/\ current_attempt = TrailingUnchanged(sdMeasured)
                           /\ page_init_height = sdMeasured[Len(sdMeasured)]))

\* C32 witness: after two unchanged attempts the height grew; the counter is
\* back at 0 and the new height is the baseline.
C32_Witness ==
    /\ sdpc = "loop"
    /\ sdMeasured = <<1, 1, 1, 2>>
    /\ current_attempt = 0
    /\ page_init_height = 2

\* C33: if from some attempt on the measured height no longer changes, the
\* function ends (it can run forever only if the height keeps changing),
\* and it returns exactly 3 attempts after the last change.
C33_TerminatesOnceStable ==
    /\ (<>[](~sdChanged)) => <>(sdpc \in {"returned", "raised"})
    /\ [](sdpc = "returned" =>
            /\ TrailingUnchanged(sdMeasured) = 3
            /\ ~sdChanged
            /\ Len(sdMeasured) = 5 => sdMeasured[1] # sdMeasured[2])

\* C33 witness: the height changed for the last time by shrinking, then
\* stayed, and the function returned three attempts later.
C33_Witness ==
    /\ sdpc = "returned"
    /\ sdMeasured = <<3, 1, 1, 1, 1>>
    /\ page_init_height = 1
    /\ page_last_height = 1
    /\ current_attempt = max_attempts

(***************************************************************************)
(* Properties of the JSON document.                                        *)
(***************************************************************************)
\* The members of a dict value, by key.
MemberOf(d, key) ==
    LET i == CHOOSE j \in 1..Len(d.items) : d.items[j].s = <<key>>
    IN  d.items[i].items[1]

HasMember(d, key) == \E j \in 1..Len(d.items) : d.items[j].s = <<key>>

====
